---- MODULE Spec2Model ----
(***************************************************************************)
(* CloudBot: the token-addressed batch store, the admin authoring          *)
(* sessions and the per-conversation browse sessions of                    *)
(* src/unnamed/part_000 (the bot's main file).                             *)
(*                                                                         *)
(* Text is modelled as a sequence of code units; a code unit is written as *)
(* a one-character string, except "LF" (line feed) and "U+2605" (a black   *)
(* star, one UTF-16 unit in the range 2600-26FF).                          *)
(*                                                                         *)
(* Environment assumptions, stated where they are used:                    *)
(*  - crypto.randomBytes never repeats a token already drawn;              *)
(*  - no batch is given a name whose storage key is "index" (the path of   *)
(*    the index record itself).                                            *)
(***************************************************************************)
EXTENDS Integers, Sequences, FiniteSets, TLC

\* ------------------------------------------------------------------ text

UpperSeq == <<"A","B","C","D","E","F","G","H","I","J","K","L","M",
              "N","O","P","Q","R","S","T","U","V","W","X","Y","Z">>
LowerSeq == <<"a","b","c","d","e","f","g","h","i","j","k","l","m",
              "n","o","p","q","r","s","t","u","v","w","x","y","z">>
DigitSeq == <<"0","1","2","3","4","5","6","7","8","9">>

Range(s) == { s[i] : i \in DOMAIN s }
Letters == Range(UpperSeq) \cup Range(LowerSeq)
Digits == Range(DigitSeq)

Min(S) == CHOOSE x \in S : \A y \in S : x <= y
Max(S) == CHOOSE x \in S : \A y \in S : x >= y

\* String.prototype.toLowerCase on one code unit
Lower(c) ==
  IF c \in Range(UpperSeq)
  THEN LowerSeq[CHOOSE i \in DOMAIN UpperSeq : UpperSeq[i] = c]
  ELSE c

\* \s of a JavaScript regular expression
IsWs(c) == c \in {" ", "LF", "CR", "TAB"}

\* the pictographic class: 1F300-1F9FF, 2600-26FF and \p{So}
IsPict(c) == c \in {"U+2605"}

\* the separators of the label pattern (colon, hyphen, en and em dash) and
\* the dashes of the dashed year
LabelSeps == {":", "-", "U+2013", "U+2014"}
Dashes == {"-", "U+2013", "U+2014"}

\* String.prototype.trim
Trim(s) ==
  LET I == { i \in DOMAIN s : ~IsWs(s[i]) }
  IN  IF I = {} THEN <<>> ELSE SubSeq(s, Min(I), Max(I))

TrimRight(s) ==
  LET I == { i \in DOMAIN s : ~IsWs(s[i]) }
  IN  IF I = {} THEN <<>> ELSE SubSeq(s, 1, Max(I))

\* s.slice(0, n)
Slice(s, n) == IF Len(s) > n THEN SubSeq(s, 1, n) ELSE s

\* s.startsWith(p)
StartsWith(s, p) == Len(s) >= Len(p) /\ SubSeq(s, 1, Len(p)) = p

\* s.endsWith(p)
EndsWith(s, p) == Len(s) >= Len(p) /\ SubSeq(s, Len(s) - Len(p) + 1, Len(s)) = p

\* c repeated n times
Rep(c, n) == [i \in 1..n |-> c]

\* s.split(/\r?\n/)[0]
FirstLine(s) ==
  LET I == { i \in DOMAIN s : s[i] = "LF" }
      cut == IF I = {} THEN s ELSE SubSeq(s, 1, Min(I) - 1)
  IN  IF I # {} /\ Len(cut) > 0 /\ cut[Len(cut)] = "CR"
      THEN SubSeq(cut, 1, Len(cut) - 1) ELSE cut

\* s.split(/\r?\n/).map(l => l.trim()).find(l => l && l.length > 0), '' if none
RECURSIVE FirstNonEmptyLine(_)
FirstNonEmptyLine(s) ==
  LET I == { i \in DOMAIN s : s[i] = "LF" }
      l == Trim(FirstLine(s))
  IN  IF l # <<>> THEN l
      ELSE IF I = {} THEN <<>>
      ELSE FirstNonEmptyLine(SubSeq(s, Min(I) + 1, Len(s)))

\* s.replace(/\s+/g, ' '): every run of whitespace becomes one space
CollapseWs(s) ==
  LET marked == [i \in DOMAIN s |->
                   [c |-> IF IsWs(s[i]) THEN " " ELSE s[i],
                    keep |-> ~IsWs(s[i]) \/ i = Len(s) \/ ~IsWs(s[i + 1])]]
      kept == SelectSeq(marked, LAMBDA m : m.keep)
  IN  [i \in DOMAIN kept |-> kept[i].c]

\* Number -> decimal digits, as template literals print a suffix
RECURSIVE NumStr(_)
NumStr(n) == IF n < 10 THEN <<DigitSeq[n + 1]>>
             ELSE NumStr(n \div 10) \o <<DigitSeq[(n % 10) + 1]>>

\* ------------------------------------------------- token & naming service

SanitizeMax == 60
DisplayMax == 200

LabelWords == { <<"m","o","v","i","e">>,
                <<"t","v"," ","s","e","r","i","e","s">>,
                <<"t","v">>,
                <<"s","e","r","i","e","s">>,
                <<"s","h","o","w">> }

\* s.replace(/^[pictographic\s]+/u, '')
StripLeadingSymbols(s) ==
  LET I == { i \in DOMAIN s : ~(IsPict(s[i]) \/ IsWs(s[i])) }
  IN  IF I = {} THEN <<>> ELSE SubSeq(s, Min(I), Len(s))

\* s.replace(/^(?:Movie|TV Series|TV|Series|Show)\s*<separator>\s*/i, '')
\* (the pattern's pictographic alternatives cannot match after the step before)
StripLabel(s) ==
  LET low == [i \in DOMAIN s |-> Lower(s[i])]
      \* the index of the separator that ends a match of word w, 0 if none
      SepAt(w) ==
        IF ~StartsWith(low, w) THEN 0
        ELSE LET J == { j \in (Len(w) + 1)..Len(s) : ~IsWs(s[j]) }
             IN  IF J # {} /\ s[Min(J)] \in LabelSeps THEN Min(J) ELSE 0
      W == { w \in LabelWords : SepAt(w) > 0 }
  IN  IF W = {} THEN s
      ELSE LET k == SepAt(CHOOSE w \in W : TRUE)
               J == { j \in (k + 1)..Len(s) : ~IsWs(s[j]) }
           IN  IF J = {} THEN <<>> ELSE SubSeq(s, Min(J), Len(s))

\* s.replace(/\s*\[[0-9]{4}\]\s*$/, '')
StripBracketYear(s) ==
  LET t == TrimRight(s)
      n == Len(t)
  IN  IF n >= 6 /\ t[n] = "]" /\ t[n - 5] = "["
         /\ \A i \in (n - 4)..(n - 1) : t[i] \in Digits
      THEN TrimRight(SubSeq(t, 1, n - 6))
      ELSE s

\* s.replace(/\s*<dash>\s*[0-9]{4}\s*$/, '')
StripDashYear(s) ==
  LET t == TrimRight(s)
      n == Len(t)
      head == IF n >= 4 THEN TrimRight(SubSeq(t, 1, n - 4)) ELSE <<>>
  IN  IF n >= 5 /\ (\A i \in (n - 3)..n : t[i] \in Digits)
         /\ head # <<>> /\ head[Len(head)] \in Dashes
      THEN TrimRight(SubSeq(head, 1, Len(head) - 1))
      ELSE s

\* [a-zA-Z0-9 \-_.]
IsKept(c) == c \in Letters \cup Digits \cup {" ", "-", "_", "."}

\* sanitizeFilenameForDisk; the empty sequence stands for null
sanitizeFilenameForDisk(name) ==
  LET s1 == Trim(name)
      s2 == StripLeadingSymbols(s1)
      s3 == StripLabel(s2)
      s4 == StripBracketYear(s3)
      s5 == StripDashYear(s4)
      s6 == Trim(SelectSeq(s5, LAMBDA c : ~IsPict(c)))
      s7 == Trim(FirstLine(s6))
      s8 == SelectSeq(s7, IsKept)
      s9 == Trim(CollapseWs(s8))
      s10 == IF Len(s9) > SanitizeMax THEN Trim(Slice(s9, SanitizeMax)) ELSE s9
  IN  IF name = <<>> THEN <<>> ELSE s10

TokenLen == 12
CHARS == UpperSeq \o DigitSeq

\* The bytes crypto.randomBytes(len) returns on its n-th call. The stream is
\* fixed: tokens are opaque to the program, and the draws are assumed never to
\* repeat a token (distinct n give distinct tokens for the n the bounds allow).
RandomBytes(n) == [i \in 1..TokenLen |-> (37 * n + i) % 256]

generateTokenShortAlphabet(rnd) ==
  [i \in 1..TokenLen |-> CHARS[(rnd[i] % (Len(CHARS) - 1)) + 1]]

generateToken(rnd) == [i \in 1..TokenLen |-> CHARS[(rnd[i] % Len(CHARS)) + 1]]

\* [a-zA-Z0-9-_.] of filenameToPath
IsDiskSafe(c) == c \in Letters \cup Digits \cup {"-", "_", "."}

DotJs == <<".", "j", "s">>
DotTmp == <<".", "t", "m", "p">>

\* filenameToPath, relative to DATA_DIR
filenameToPath(filename) ==
  [i \in DOMAIN filename |-> IF IsDiskSafe(filename[i]) THEN filename[i] ELSE "_"]
    \o DotJs

INDEX_FILE == <<"i", "n", "d", "e", "x">> \o DotJs

BatchPrefix == <<"b", "a", "t", "c", "h", "_">>
BatchBase == <<"b", "a", "t", "c", "h">>

\* ------------------------------------------------------ durable record store

VARIABLES
  disk,            \* DATA_DIR: path -> content of the files that exist
  wr,              \* the atomicWriteFileSync call in progress (StoreSpec)
  lastRead,        \* what the last readIndex / readBatchFile call returned (StoreSpec)
  pendingBatches,  \* chat -> authoring session entry
  pendingAddTo,    \* chat -> append-to-existing session
  naming,          \* addFileToPending calls suspended in detectNameFromFile
  browseSessions,  \* chat -> browse session
  opening,         \* browse_open handlers suspended in the preview send
  drawn,           \* number of generateToken calls so far
  nextItem,        \* number of the next incoming item
  lim,             \* the bounds and input sets of the run, fixed by Init
  renames,         \* history: token -> number of successful renames
  acked,           \* history: items whose append was acknowledged
  overlap,         \* history: <<a, b>>, b appended while a's append was suspended
  callbackTokenMap, \* __callbackTokenMap: key -> entry
  clock,             \* Date.now(), in milliseconds
  sweepAt,         \* the time at which the cleanup timer fires next
  last,            \* observation: the update handled last and the reply it got
  surface,         \* observation: chat -> the browse content messages it shows
  redeeming,       \* /start <token> handlers suspended in a delivery
  gen,             \* the random bytes drawn for a token and the token made of them
  buttons,         \* observation: the Token buttons sent, with what each row showed
  raced,           \* history: index updates made while a naming handler was suspended
  replacing,       \* browse_left / browse_right handlers suspended in replaceBrowseMessage
  showing,         \* observation: chat -> message id -> the position its preview shows
  knownTokens,     \* the watcher's snapshot: token -> name (bot2.js)
  indexTimer,      \* the watcher's debounce timer: the time it is due, or NoTimer
  watching,        \* startWatch has run
  notified,        \* observation: the notifyBatch calls of the watcher's last scan
  announced        \* history: tokens announced as new that stayed in the Index since

vars == <<disk, wr, lastRead, pendingBatches, pendingAddTo, naming, browseSessions,
          opening, drawn, nextItem, lim, renames, acked, overlap,
          callbackTokenMap, clock, sweepAt, last, surface, redeeming, gen, buttons,
          raced, replacing, showing, knownTokens, indexTimer, watching, notified,
          announced>>

\* the state of the index watcher, a process of its own
watcher == <<knownTokens, indexTimer, watching, notified, announced>>

\* the state that the authoring, browse and store operations never touch
rest == <<callbackTokenMap, clock, sweepAt, redeeming, gen, buttons>>

\* let indexTimer = null
NoTimer == 0

Exists(d, path) == path \in DOMAIN d

\* the function d with path mapped to content (path created when missing)
Put(d, path, content) ==
  [q \in DOMAIN d \cup {path} |-> IF q = path THEN content ELSE d[q]]

\* fs.unlinkSync
Unlink(d, path) == [q \in DOMAIN d \ {path} |-> d[q]]

\* fs.renameSync(from, to)
Rename(d, from, to) == IF from = to THEN d ELSE Unlink(Put(d, to, d[from]), from)

\* A file that holds only a part of the serialization of data: what
\* fs.writeFileSync leaves while it runs or when it is cut
Torn(data) == [data EXCEPT !.whole = FALSE]

\* variant: the data is written in place, over the file itself
tmpPathInPlace(filepath) == filepath

\* const tmp = filepath + '.tmp'
tmpPath(filepath) == filepath \o DotTmp

\* atomicWriteFileSync run to its end: tmp written, then renamed over the file
atomicWriteFileSync(d, filepath, data) ==
  Rename(Put(d, tmpPath(filepath), data), tmpPath(filepath), filepath)

\* require(path): the record the file holds; Raised when the file is missing
\* or its text is no complete module
Raised == [kind |-> "raised"]

Loadable(d, path) == Exists(d, path) /\ d[path].whole

Load(d, path) == IF Loadable(d, path) THEN d[path] ELSE Raised

\* the `catch` of readIndex
EmptyIndex == [tokens |-> <<>>, order |-> <<>>]

IndexRecord(idx) ==
  [kind |-> "index", whole |-> TRUE, tokens |-> idx.tokens, order |-> idx.order]

\* variant: readIndex without its try/catch
readIndexNoCatch(d) ==
  LET loaded == Load(d, INDEX_FILE)
  IN  IF loaded.kind = "index"
      THEN [tokens |-> loaded.tokens, order |-> loaded.order]
      ELSE loaded

readIndex(d) ==
  LET loaded == Load(d, INDEX_FILE)
  IN  IF loaded.kind = "index"
      THEN [tokens |-> loaded.tokens, order |-> loaded.order]
      ELSE EmptyIndex

writeIndex(d, idx) == atomicWriteFileSync(d, INDEX_FILE, IndexRecord(idx))

\* the names every JavaScript object inherits from Object.prototype (some)
ObjectPrototype ==
  { <<"c", "o", "n", "s", "t", "r", "u", "c", "t", "o", "r">>,
    <<"t", "o", "S", "t", "r", "i", "n", "g">>,
    <<"v", "a", "l", "u", "e", "O", "f">>,
    <<"_", "_", "p", "r", "o", "t", "o", "_", "_">> }

\* the value of an inherited property: a function or an object, truthy and
\* no string
Inherited == <<"[native code]">>

\* undefined
Undefined == <<>>

\* obj[key] on an object written as a literal: its own property, else the
\* one it inherits, else undefined
Lookup(obj, key) ==
  IF key \in DOMAIN obj THEN obj[key]
  ELSE IF key \in ObjectPrototype THEN Inherited
  ELSE Undefined

\* null
NoBatch == [kind |-> "none"]

\* readBatchFile: the record, or NoBatch for null
readBatchFile(d, filename) ==
  LET loaded == IF filename = Inherited THEN Raised
                ELSE Load(d, filenameToPath(filename))
  IN  IF loaded.kind = "batch" THEN loaded ELSE NoBatch

writeBatchFile(d, filename, obj) ==
  atomicWriteFileSync(d, filenameToPath(filename), obj)

NewBatch(filename, token, adminId) ==
  [kind |-> "batch", whole |-> TRUE, token |-> token, filename |-> filename,
   adminId |-> adminId, files |-> <<>>, ratings |-> <<>>, display_name |-> filename]

createBatchFile(d, filename, token, adminId) ==
  atomicWriteFileSync(d, filenameToPath(filename), NewBatch(filename, token, adminId))

\* obj[key] = value on a JavaScript object used as a map
MapSet(m, key, value) ==
  [k \in DOMAIN m \cup {key} |-> IF k = key THEN value ELSE m[k]]

\* delete obj[key]
MapDel(m, key) == [k \in DOMAIN m \ {key} |-> m[k]]

Includes(seq, x) == \E i \in DOMAIN seq : seq[i] = x

\* Array.prototype.indexOf, 1-based; 0 for -1
IndexOf(seq, x) ==
  IF Includes(seq, x) THEN Min({ i \in DOMAIN seq : seq[i] = x }) ELSE 0

\* variant: the index written is made from one read before the other updates
registerTokenInIndexStale(d, token, filename) ==
  LET idx == EmptyIndex
      tokens == MapSet(idx.tokens, token, filename)
      order == IF Includes(idx.order, filename) THEN idx.order
               ELSE Append(idx.order, filename)
  IN  writeIndex(d, [tokens |-> tokens, order |-> order])

registerTokenInIndex(d, token, filename) ==
  LET idx == readIndex(d)
      tokens == MapSet(idx.tokens, token, filename)
      order == IF Includes(idx.order, filename) THEN idx.order
               ELSE Append(idx.order, filename)
  IN  writeIndex(d, [tokens |-> tokens, order |-> order])

\* variant: the name is taken without a look at the storage keys in use
FreeNameUnchecked(d, base, token, suffix) == base \o <<"_">> \o token

\* the first name of the form base_token_suffix whose storage key is free
RECURSIVE FreeName(_, _, _, _)
FreeName(d, base, token, suffix) ==
  LET name == base \o <<"_">> \o token \o <<"_">> \o NumStr(suffix)
  IN  IF Exists(d, filenameToPath(name)) THEN FreeName(d, base, token, suffix + 1)
      ELSE name

\* renameBatchFileOnDisk: the disk after the call and the name it returns
\* (the empty name for null)
renameBatchFileOnDisk(d, oldFilename, newFilenameBase, token, displayNameFull) ==
  LET oldPath == filenameToPath(oldFilename)
      first == IF newFilenameBase # <<>> THEN newFilenameBase \o <<"_">> \o token
               ELSE BatchPrefix \o token
      final == IF Exists(d, filenameToPath(first))
               THEN FreeName(d, newFilenameBase, token, 1) ELSE first
      batch == readBatchFile(d, oldFilename)
      renamed == [batch EXCEPT
                    !.filename = final,
                    !.display_name = IF displayNameFull # <<>>
                                     THEN Slice(Trim(displayNameFull), DisplayMax)
                                     ELSE final]
      d1 == atomicWriteFileSync(d, filenameToPath(final), renamed)
      d2 == IF Exists(d1, oldPath) THEN Unlink(d1, oldPath) ELSE d1
      idx == readIndex(d2)
      tokens == IF token # <<>> THEN MapSet(idx.tokens, token, final) ELSE idx.tokens
      pos == IndexOf(idx.order, oldFilename)
      order == IF pos # 0 THEN [idx.order EXCEPT ![pos] = final]
               ELSE Append(idx.order, final)
  IN  IF batch = NoBatch THEN [disk |-> d, name |-> <<>>]
      ELSE [disk |-> writeIndex(d2, [tokens |-> tokens, order |-> order]),
            name |-> final]

\* ---------------------------------------------------------- name detection

ChunkMax == 8192

TextMimes == {"text/plain", "text/csv", "text/markdown"}

TextExts == { <<".", "t", "x", "t">>, <<".", "n", "f", "o">>, <<".", "s", "r", "t">>,
              <<".", "a", "s", "s">>, <<".", "s", "u", "b">>, <<".", "m", "d">>,
              <<".", "c", "s", "v">>, <<".", "l", "o", "g">> }

\* mime.startsWith('text/') || /\.(txt|nfo|srt|ass|sub|md|csv|log)$/i.test(fn)
textLike(fileMeta) ==
  \/ fileMeta.mime_type \in TextMimes
  \/ \E e \in TextExts :
       EndsWith([i \in DOMAIN fileMeta.file_name |-> Lower(fileMeta.file_name[i])], e)

\* file_name.replace(/\.[^/.]+$/, '')
Stem(name) ==
  LET D == { i \in DOMAIN name : name[i] = "." }
  IN  IF D # {} /\ Max(D) < Len(name)
         /\ \A j \in (Max(D) + 1)..Len(name) : name[j] # "/"
      THEN SubSeq(name, 1, Max(D) - 1)
      ELSE name

Detected(raw) ==
  [found |-> TRUE, rawLine |-> raw, sanitized |-> sanitizeFilenameForDisk(raw)]

NotDetected == [found |-> FALSE, rawLine |-> <<>>, sanitized |-> <<>>]

\* the caption yields the label: detectNameFromFile returns without I/O
CaptionLabel(fileMeta) ==
  fileMeta.caption # <<>> /\ FirstNonEmptyLine(fileMeta.caption) # <<>>

\* detectNameFromFile downloads the head of the file
ReadsFile(fileMeta) ==
  ~CaptionLabel(fileMeta) /\ fileMeta.file_id # 0 /\ textLike(fileMeta)

\* detectNameFromFile; io is what the download gave: [ok, chunk]
detectNameFromFile(fileMeta, io) ==
  LET fromChunk == FirstNonEmptyLine(Slice(io.chunk, ChunkMax))
  IN  IF CaptionLabel(fileMeta)
      THEN Detected(Slice(Trim(FirstNonEmptyLine(fileMeta.caption)), DisplayMax))
      ELSE IF ReadsFile(fileMeta) /\ io.ok /\ fromChunk # <<>>
      THEN Detected(Slice(Trim(fromChunk), DisplayMax))
      ELSE IF fileMeta.file_name # <<>>
      THEN Detected(Slice(Trim(Stem(fileMeta.file_name)), DisplayMax))
      ELSE NotDetected

NoIo == [ok |-> FALSE, chunk |-> <<>>]

\* ----------------------------------------------------- observed updates
\* What the conversations see is followed only in the runs that ask for it
\* (lim.observe): no handler reads it back.

NoUpdate == [tick |-> FALSE, chat |-> "", update |-> <<>>, reply |-> ""]

\* the handler of `update` from chat c answered `reply`; tick alternates, so
\* that two equal updates in a row are two updates
Handled(c, update, reply) ==
  last' = IF lim.observe
          THEN [tick |-> ~last.tick, chat |-> c, update |-> update, reply |-> reply]
          ELSE last

\* the conversations: the admin authors in one, appends to existing batches in
\* another; a viewer browses
AuthorChat == "c1"
AppendChat == "c2"
ViewerChat == "v1"

\* ------------------------------------------------------ authoring sessions

EmptyMap == [k \in {} |-> <<>>]

\* pendingBatches[chatId] as `{}`: no batch started yet
EmptyEntry ==
  [started |-> FALSE, token |-> <<>>, filename |-> <<>>, nfiles |-> 0,
   autoNamed |-> FALSE, awaitingFilename |-> FALSE]

\* variant: every new session has auto-naming pending
startPendingBatchAutoNamed(d, n, adminChatId, filename) ==
  LET token == generateToken(RandomBytes(n))
      named == filename # <<>> /\ Len(Trim(filename)) > 0
      initialFilename == IF named THEN Trim(filename) ELSE BatchPrefix \o token
      d1 == createBatchFile(d, initialFilename, token, adminChatId)
  IN  [disk |-> registerTokenInIndex(d1, token, initialFilename),
       sess |-> [started |-> TRUE, token |-> token, filename |-> initialFilename,
                 nfiles |-> 0, autoNamed |-> TRUE, awaitingFilename |-> FALSE]]

\* startPendingBatch, the n-th token draw: the disk after it and the session
startPendingBatch(d, n, adminChatId, filename) ==
  LET token == generateToken(RandomBytes(n))
      named == filename # <<>> /\ Len(Trim(filename)) > 0
      initialFilename == IF named THEN Trim(filename) ELSE BatchPrefix \o token
      d1 == createBatchFile(d, initialFilename, token, adminChatId)
  IN  [disk |-> registerTokenInIndex(d1, token, initialFilename),
       sess |-> [started |-> TRUE, token |-> token, filename |-> initialFilename,
                 nfiles |-> 0, autoNamed |-> ~named, awaitingFilename |-> FALSE]]

\* the fileMeta the message handler builds from an incoming message
FileMeta(inp, id) ==
  [id |-> id, type |-> inp.type, caption |-> inp.caption,
   file_name |-> inp.file_name, mime_type |-> inp.mime_type,
   file_id |-> IF inp.hasFile THEN id ELSE 0]

\* addFileToPending up to its await: the append to the persisted batch
appendToPending(d, cur, adminChatId, fileMeta) ==
  LET found == readBatchFile(d, cur.filename)
      d1 == IF found = NoBatch
            THEN createBatchFile(d, cur.filename, cur.token, adminChatId) ELSE d
      batch == IF found = NoBatch
               THEN NewBatch(cur.filename, cur.token, adminChatId) ELSE found
  IN  writeBatchFile(d1, cur.filename,
                     [batch EXCEPT !.files = Append(batch.files, fileMeta)])

\* variant: every item of an auto-named session enters auto-naming
entersNamingAnyItem(cur, nfiles) == cur.autoNamed

\* addFileToPending enters auto-naming for this item
entersNaming(cur, nfiles) == cur.autoNamed /\ nfiles = 1

\* variant: the append puts the item before the items of the record
addFileToExistingBatchAtFront(d, token, fileMeta) ==
  LET idx == readIndex(d)
      known == token \in DOMAIN idx.tokens
      batch == IF known THEN readBatchFile(d, idx.tokens[token]) ELSE NoBatch
  IN  IF batch = NoBatch THEN [disk |-> d, ok |-> FALSE]
      ELSE [disk |-> writeBatchFile(d, idx.tokens[token],
                       [batch EXCEPT !.files = <<fileMeta>> \o batch.files]),
            ok |-> TRUE]

\* variant: the append writes back a record read before the other appends
addFileToExistingBatchStale(d, token, fileMeta) ==
  LET idx == readIndex(d)
      known == token \in DOMAIN idx.tokens
      batch == IF known THEN readBatchFile(d, idx.tokens[token]) ELSE NoBatch
  IN  IF batch = NoBatch THEN [disk |-> d, ok |-> FALSE]
      ELSE [disk |-> writeBatchFile(d, idx.tokens[token],
                       [batch EXCEPT !.files = <<fileMeta>>]),
            ok |-> TRUE]

\* addFileToExistingBatch: the disk after it and whether a batch was returned
addFileToExistingBatch(d, token, fileMeta) ==
  LET idx == readIndex(d)
      known == token \in DOMAIN idx.tokens
      batch == IF known THEN readBatchFile(d, idx.tokens[token]) ELSE NoBatch
  IN  IF batch = NoBatch THEN [disk |-> d, ok |-> FALSE]
      ELSE [disk |-> writeBatchFile(d, idx.tokens[token],
                       [batch EXCEPT !.files = Append(batch.files, fileMeta)]),
            ok |-> TRUE]

\* startPendingAddTo: the session it registers, ok FALSE for null
startPendingAddTo(d, token) ==
  LET filename == Lookup(readIndex(d).tokens, token)
  IN  [ok |-> filename # Undefined,
       sess |-> [token |-> token, filename |-> filename, nfiles |-> 0]]

\* the next update is taken up: at any time, or (lim.seq) only when no
\* addFileToPending is suspended in its name detection
Ready == lim.seq => naming = {}

Bump(h, t) == MapSet(h, t, IF t \in DOMAIN h THEN h[t] + 1 ELSE 1)

\* history (followed only where the chats are observed): the handler of `op`
\* on `token` wrote the index, leaving d2, while the handlers in `held` were
\* suspended in their name detection
Overlapped(held, op, token, d2) ==
  raced' = IF lim.observe /\ readIndex(d2) # readIndex(disk)
           THEN raced \cup { [held |-> k.token, from |-> k.filename, op |-> op,
                              token |-> token, after |-> readIndex(d2)] : k \in held }
           ELSE raced

\* /sendfile
SendFileCmd(c) ==
  /\ Ready
  /\ pendingBatches' = MapSet(pendingBatches, c,
       [(IF c \in DOMAIN pendingBatches THEN pendingBatches[c] ELSE EmptyEntry)
          EXCEPT !.awaitingFilename = TRUE])
  /\ Handled(c, <<"/sendfile">>, "Send filename")
  /\ UNCHANGED <<watcher, replacing, showing, raced, disk, wr, lastRead, pendingAddTo, naming, browseSessions, opening, drawn,
                 nextItem, lim, surface, rest, renames, acked, overlap>>

\* the admin's text answer to /sendfile: the explicit batch name
FilenameText(c, text) ==
  /\ Ready
  /\ c \in DOMAIN pendingBatches
  /\ pendingBatches[c].awaitingFilename
  /\ drawn < lim.maxTokens
  /\ LET r == startPendingBatch(disk, drawn + 1, c, Trim(text))
     IN  /\ disk' = r.disk
         /\ pendingBatches' = MapSet(pendingBatches, c, r.sess)
  /\ drawn' = drawn + 1
  /\ Handled(c, <<"text", text>>, "Batch started")
  /\ Overlapped(naming, "register", generateToken(RandomBytes(drawn + 1)), disk')
  /\ UNCHANGED <<watcher, replacing, showing, wr, lastRead, pendingAddTo, naming, browseSessions, opening, nextItem, lim, surface, rest,
                 renames, acked, overlap>>

\* /addto <TOKEN>
AddToCmd(c, token) ==
  /\ Ready
  /\ LET started == startPendingAddTo(disk, token)
     IN  /\ pendingAddTo' = IF started.ok THEN MapSet(pendingAddTo, c, started.sess)
                            ELSE pendingAddTo
         /\ Handled(c, <<"/addto", token>>,
                    IF started.ok THEN "Now forward or upload" ELSE "Token not found.")
  /\ UNCHANGED <<watcher, replacing, showing, raced, disk, wr, lastRead, pendingBatches, naming, browseSessions, opening, drawn,
                 nextItem, lim, surface, rest, renames, acked, overlap>>

\* variant: /doneaddto ends the authoring session too
DoneAddToEndingBoth(c) ==
  /\ Ready
  /\ c \in DOMAIN pendingAddTo
  /\ pendingAddTo' = MapDel(pendingAddTo, c)
  /\ pendingBatches' = MapDel(pendingBatches, c)
  /\ Handled(c, <<"/doneaddto">>,
             IF readBatchFile(disk, pendingAddTo[c].filename) # NoBatch
             THEN "Added items" ELSE "Batch not found after add.")
  /\ UNCHANGED <<watcher, replacing, showing, raced, disk, wr, lastRead, naming, browseSessions, opening, drawn,
                 nextItem, lim, surface, rest, renames, acked, overlap>>

\* /doneaddto
DoneAddTo(c) ==
  /\ Ready
  /\ c \in DOMAIN pendingAddTo
  /\ pendingAddTo' = MapDel(pendingAddTo, c)
  /\ Handled(c, <<"/doneaddto">>,
             IF readBatchFile(disk, pendingAddTo[c].filename) # NoBatch
             THEN "Added items" ELSE "Batch not found after add.")
  /\ UNCHANGED <<watcher, replacing, showing, raced, disk, wr, lastRead, pendingBatches, naming, browseSessions, opening, drawn,
                 nextItem, lim, surface, rest, renames, acked, overlap>>

\* /doneadd
DoneAdd(c) ==
  /\ Ready
  /\ c \in DOMAIN pendingBatches
  /\ pendingBatches' = MapDel(pendingBatches, c)
  /\ Handled(c, <<"/doneadd">>,
             IF readBatchFile(disk, pendingBatches[c].filename) # NoBatch
             THEN "Saved" ELSE "Batch finalized but could not find batch file.")
  /\ UNCHANGED <<watcher, replacing, showing, raced, disk, wr, lastRead, pendingAddTo, naming, browseSessions, opening, drawn,
                 nextItem, lim, surface, rest, renames, acked, overlap>>

\* /deletefile <TOKEN> (meta.json, which the handler also prunes, is no part
\* of the Index or of a Batch and is left out)
DeleteFile(token) ==
  /\ Ready
  /\ LET idx == readIndex(disk)
         filename == idx.tokens[token]
         filePath == filenameToPath(filename)
         d1 == IF Exists(disk, filePath) THEN Unlink(disk, filePath) ELSE disk
     IN  /\ token \in DOMAIN idx.tokens
         /\ disk' = writeIndex(d1,
              [tokens |-> MapDel(idx.tokens, token),
               order |-> SelectSeq(idx.order, LAMBDA f : f # filename)])
  /\ Handled(AuthorChat, <<"/deletefile", token>>, "Deleted")
  /\ Overlapped(naming, "delete", token, disk')
  /\ UNCHANGED <<watcher, replacing, showing, wr, lastRead, pendingBatches, pendingAddTo, naming, browseSessions, opening,
                 drawn, nextItem, lim, surface, rest, renames, acked, overlap>>

\* pendingBatches[chatId].editCaptionFlow is set
HasFlow(c) ==
  c \in DOMAIN pendingBatches /\ "editCaptionFlow" \in DOMAIN pendingBatches[c]

\* the entry with its editCaptionFlow set to flow
WithFlow(entry, flow) ==
  [f \in DOMAIN entry \cup {"editCaptionFlow"} |->
     IF f = "editCaptionFlow" THEN flow ELSE entry[f]]

\* delete entry.editCaptionFlow
WithoutFlow(entry) == [f \in DOMAIN entry \ {"editCaptionFlow"} |-> entry[f]]

\* pendingBatches[chatId] = pendingBatches[chatId] || {}
EntryOf(c) == IF c \in DOMAIN pendingBatches THEN pendingBatches[c] ELSE EmptyEntry

\* /edit_caption <TOKEN>
EditCaptionCmd(c, token) ==
  /\ Ready
  /\ LET filename == Lookup(readIndex(disk).tokens, token)
         batch == IF filename = Undefined THEN NoBatch ELSE readBatchFile(disk, filename)
     IN  IF batch = NoBatch \/ batch.files = <<>>
         THEN /\ pendingBatches' = pendingBatches
              /\ Handled(c, <<"/edit_caption", token>>,
                         IF filename = Undefined THEN "Token not found."
                         ELSE "Batch has no files.")
         ELSE /\ pendingBatches' = MapSet(pendingBatches, c,
                   WithFlow(EntryOf(c), [token |-> token, filename |-> filename,
                                         stage |-> "await_index", fileIndex |-> 0]))
              /\ Handled(c, <<"/edit_caption", token>>, "Editing captions")
  /\ UNCHANGED <<watcher, replacing, showing, raced, disk, wr, lastRead, pendingAddTo, naming, browseSessions, opening, drawn,
                 nextItem, lim, surface, rest, renames, acked, overlap>>

\* file_edit_<token>_<i> pressed by the admin
FileEdit(c, token, idxNum) ==
  /\ Ready
  /\ LET filename == Lookup(readIndex(disk).tokens, token)
         batch == IF filename = Undefined THEN NoBatch ELSE readBatchFile(disk, filename)
     IN  IF batch = NoBatch \/ idxNum < 0 \/ idxNum >= Len(batch.files)
         THEN /\ pendingBatches' = pendingBatches
              /\ Handled(c, <<"file_edit", token, idxNum>>,
                         IF filename = Undefined THEN "Batch not found"
                         ELSE IF batch = NoBatch THEN "Batch missing"
                         ELSE "Invalid file index")
         ELSE /\ pendingBatches' = MapSet(pendingBatches, c,
                   WithFlow(EntryOf(c), [token |-> token, filename |-> filename,
                                         stage |-> "await_caption", fileIndex |-> idxNum]))
              /\ Handled(c, <<"file_edit", token, idxNum>>, "Send a new caption")
  /\ UNCHANGED <<watcher, replacing, showing, raced, disk, wr, lastRead, pendingAddTo, naming, browseSessions, opening, drawn,
                 nextItem, lim, surface, rest, renames, acked, overlap>>

\* the reply to the file-number prompt: the text of the number n
EditIndexText(c, n) ==
  /\ Ready
  /\ HasFlow(c)
  /\ pendingBatches[c].editCaptionFlow.stage = "await_index"
  /\ ~pendingBatches[c].awaitingFilename
  /\ LET flow == pendingBatches[c].editCaptionFlow
         batch == readBatchFile(disk, flow.filename)
     IN  IF batch = NoBatch THEN pendingBatches' = pendingBatches /\ last' = last
         ELSE IF n < 1 \/ n > Len(batch.files)
         THEN /\ pendingBatches' = pendingBatches
              /\ Handled(c, <<"text", n>>, "Invalid number.")
         ELSE /\ pendingBatches' = [pendingBatches EXCEPT ![c].editCaptionFlow =
                                      [flow EXCEPT !.fileIndex = n - 1,
                                                   !.stage = "await_caption"]]
              /\ Handled(c, <<"text", n>>, "Send the new caption")
  /\ UNCHANGED <<watcher, replacing, showing, raced, disk, wr, lastRead, pendingAddTo, naming, browseSessions, opening, drawn,
                 nextItem, lim, surface, rest, renames, acked, overlap>>

\* the reply to the caption prompt
EditCaptionText(c, text) ==
  /\ Ready
  /\ HasFlow(c)
  /\ pendingBatches[c].editCaptionFlow.stage = "await_caption"
  /\ ~pendingBatches[c].awaitingFilename
  /\ LET flow == pendingBatches[c].editCaptionFlow
         batch == readBatchFile(disk, flow.filename)
     IN  IF batch = NoBatch \/ flow.fileIndex + 1 \notin DOMAIN batch.files
         THEN /\ disk' = disk
              /\ pendingBatches' = pendingBatches
              /\ last' = last
         ELSE /\ disk' = writeBatchFile(disk, flow.filename,
                           [batch EXCEPT !.files[flow.fileIndex + 1].caption = text])
              /\ pendingBatches' = [pendingBatches EXCEPT ![c] = WithoutFlow(@)]
              /\ Handled(c, <<"text", text>>, "Caption updated.")
  /\ UNCHANGED <<watcher, replacing, showing, raced, wr, lastRead, pendingAddTo, naming, browseSessions, opening, drawn,
                 nextItem, lim, surface, rest, renames, acked, overlap>>

\* an item from the admin while an append-to-existing session is active
AppendExisting(c, inp) ==
  /\ Ready
  /\ c \in DOMAIN pendingAddTo
  /\ nextItem <= lim.maxItems
  \* a plain text is the reply to a filename or caption prompt that is open
  /\ ~(c \in DOMAIN pendingBatches /\ pendingBatches[c].awaitingFilename
       /\ inp.type = "text")
  /\ ~(HasFlow(c) /\ inp.type = "text")
  /\ LET pending == pendingAddTo[c]
         fileMeta == FileMeta(inp, nextItem)
         r == addFileToExistingBatch(disk, pending.token, fileMeta)
         target == filenameToPath(readIndex(disk).tokens[pending.token])
     IN  /\ disk' = r.disk
         /\ pendingAddTo' = [pendingAddTo EXCEPT ![c].nfiles = @ + 1]
         /\ acked' = IF r.ok THEN acked \cup {nextItem} ELSE acked
         /\ overlap' = IF r.ok
                       THEN overlap \cup
                            { <<k.file.id, nextItem>> :
                                k \in { n \in naming : filenameToPath(n.filename) = target } }
                       ELSE overlap
  /\ nextItem' = nextItem + 1
  /\ Handled(c, <<"item", nextItem>>,
             IF addFileToExistingBatch(disk, pendingAddTo[c].token,
                                       FileMeta(inp, nextItem)).ok
             THEN "Appended item to batch" ELSE "Failed to append item.")
  /\ UNCHANGED <<watcher, replacing, showing, raced, wr, lastRead, pendingBatches, naming, browseSessions, opening, drawn, lim, surface, rest,
                 renames>>

\* an item from the admin with no append-to-existing session: the media branch
\* of the message handler and addFileToPending up to its await
AppendItem(c, inp) ==
  /\ Ready
  /\ c \notin DOMAIN pendingAddTo
  /\ nextItem <= lim.maxItems
  \* a plain text sent while a name is awaited is the name, not an item
  /\ ~(c \in DOMAIN pendingBatches /\ pendingBatches[c].awaitingFilename
       /\ inp.type = "text")
  \* nor is a text sent while a caption edit awaits its reply
  /\ ~(HasFlow(c) /\ inp.type = "text")
  /\ LET fresh == \/ c \notin DOMAIN pendingBatches
                  \/ /\ pendingBatches[c].awaitingFilename
                     /\ \/ pendingBatches[c].filename = <<>>
                        \/ StartsWith(pendingBatches[c].filename, BatchPrefix)
         r == IF fresh THEN startPendingBatch(disk, drawn + 1, c, <<>>)
              ELSE [disk |-> disk,
                    sess |-> [pendingBatches[c] EXCEPT !.awaitingFilename = FALSE]]
         fileMeta == FileMeta(inp, nextItem)
         cur == [r.sess EXCEPT !.nfiles = @ + 1]
         \* the entry is `{}`: cur.files.push throws in addFileToPending
         broken == ~fresh /\ ~pendingBatches[c].started
     IN  /\ fresh => drawn < lim.maxTokens
         /\ drawn' = IF fresh THEN drawn + 1 ELSE drawn
         /\ disk' = IF broken THEN disk ELSE appendToPending(r.disk, cur, c, fileMeta)
         /\ pendingBatches' = IF broken THEN pendingBatches
                              ELSE MapSet(pendingBatches, c, cur)
         /\ IF ~broken /\ entersNaming(cur, cur.nfiles)
            THEN /\ naming' = naming \cup
                       {[chat |-> c, token |-> cur.token, filename |-> cur.filename,
                         file |-> fileMeta, nth |-> cur.nfiles]}
                 /\ acked' = acked
                 /\ last' = last
            ELSE /\ naming' = naming
                 /\ acked' = IF broken THEN acked ELSE acked \cup {nextItem}
                 /\ Handled(c, <<"item", nextItem>>,
                            IF broken THEN "Failed to add file to batch."
                            ELSE "Added item to batch")
  /\ nextItem' = nextItem + 1
  /\ IF drawn' # drawn
     THEN Overlapped(naming, "register", generateToken(RandomBytes(drawn + 1)), disk')
     ELSE raced' = raced
  /\ UNCHANGED <<watcher, replacing, showing, wr, lastRead, pendingAddTo, browseSessions, opening, lim, surface, rest, renames, overlap>>

\* the session object a suspended addFileToPending holds is still the one
\* registered for its chat
Attached(k) ==
  /\ k.chat \in DOMAIN pendingBatches
  /\ pendingBatches[k.chat].started
  /\ pendingBatches[k.chat].token = k.token

\* variant: the display name is the slug, not the raw label
finishNamingSlug(d, k, detected) ==
  LET sanitized == detected.sanitized
      newBase == IF sanitized # <<>> THEN sanitized ELSE BatchBase
  IN  IF detected.found
      THEN renameBatchFileOnDisk(d, k.filename, newBase, k.token, newBase)
      ELSE [disk |-> d, name |-> <<>>]

\* addFileToPending after its await: the rename, for the detection result
finishNaming(d, k, detected) ==
  LET sanitized == detected.sanitized
      newBase == IF sanitized # <<>> THEN sanitized ELSE BatchBase
      display == IF detected.rawLine # <<>> THEN detected.rawLine ELSE newBase
  IN  IF detected.found
      THEN renameBatchFileOnDisk(d, k.filename, newBase, k.token, display)
      ELSE [disk |-> d, name |-> <<>>]

\* addFileToPending resumes from detectNameFromFile
AutoNameResume(k, io) ==
  /\ k \in naming
  /\ io = NoIo \/ ReadsFile(k.file)
  /\ LET r == finishNaming(disk, k, detectNameFromFile(k.file, io))
     IN  /\ disk' = r.disk
         /\ renames' = IF r.name # <<>> THEN Bump(renames, k.token) ELSE renames
         /\ pendingBatches' =
              IF Attached(k)
              THEN [pendingBatches EXCEPT
                      ![k.chat].filename = IF r.name # <<>> THEN r.name ELSE @,
                      ![k.chat].autoNamed = FALSE]
              ELSE pendingBatches
  /\ naming' = naming \ {k}
  /\ acked' = acked \cup {k.file.id}
  /\ Handled(k.chat, <<"item", k.file.id>>, "Added item to batch")
  /\ Overlapped(naming \ {k}, "rename", k.token, disk')
  /\ UNCHANGED <<watcher, replacing, showing, wr, lastRead, pendingAddTo, browseSessions, opening, drawn, nextItem, lim, surface, rest,
                 overlap>>

\* index_up_<token> / index_down_<token>: the admin moves a batch in order
Swap(seq, i, j) == [seq EXCEPT ![i] = seq[j], ![j] = seq[i]]

IndexUp(token) ==
  /\ Ready
  /\ LET idx == readIndex(disk)
         pos == IndexOf(idx.order, idx.tokens[token])
     IN  /\ token \in DOMAIN idx.tokens
         /\ pos > 1
         /\ disk' = writeIndex(disk, [idx EXCEPT !.order = Swap(idx.order, pos - 1, pos)])
  /\ Overlapped(naming, "up", token, disk')
  /\ UNCHANGED <<watcher, replacing, showing, wr, lastRead, pendingBatches, pendingAddTo, naming, browseSessions, opening,
                 drawn, nextItem, lim, last, surface, rest, renames, acked, overlap>>

IndexDown(token) ==
  /\ Ready
  /\ LET idx == readIndex(disk)
         pos == IndexOf(idx.order, idx.tokens[token])
     IN  /\ token \in DOMAIN idx.tokens
         /\ pos > 0
         /\ pos < Len(idx.order)
         /\ disk' = writeIndex(disk, [idx EXCEPT !.order = Swap(idx.order, pos + 1, pos)])
  /\ Overlapped(naming, "down", token, disk')
  /\ UNCHANGED <<watcher, replacing, showing, wr, lastRead, pendingBatches, pendingAddTo, naming, browseSessions, opening,
                 drawn, nextItem, lim, last, surface, rest, renames, acked, overlap>>

\* --------------------------------------------------------- browse sessions
\* pos is the 0-based index of the code; order[pos + 1] is its batch here.

\* history of a session's navigation since its browse_open: n steps, all of
\* one kind, or mixed
Fresh == [kind |-> "open", n |-> 0]

Navigated(nav, kind) ==
  IF nav.kind \in {"open", kind} THEN [kind |-> kind, n |-> nav.n + 1]
  ELSE [kind |-> "mixed", n |-> nav.n + 1]

\* what a conversation shows of its browse session: the browse content
\* messages that are in the chat (message id -> kind of message), the
\* session's messageId, and the number of messages sent so far
NoSurface == [live |-> EmptyMap, messageId |-> 0, sent |-> 0]

SurfaceOf(c) == IF c \in DOMAIN surface THEN surface[c] ELSE NoSurface

\* the kind of message the send calls make of an item
KindSent(fileObj) ==
  IF fileObj.type \in {"photo", "document", "video"} /\ fileObj.file_id # 0
  THEN fileObj.type ELSE "text"

\* a message that editMessageText can edit
IsText(kind) == kind \in {"text", "list"}

\* what Telegram does with the calls of replaceBrowseMessage
ReplaceOutcomes == [edit : BOOLEAN, send : BOOLEAN, delete : BOOLEAN]

\* replaceBrowseMessage(chatId, oldMessageId, fileObj, captionHtml) followed
\* by `if (res && res.newMessage) session.messageId = ...`; editMessageMedia
\* can succeed only on a media message that is still there
replaceBrowseMessage(s, fileObj, tg) ==
  LET old == s.messageId
      there == old \in DOMAIN s.live
      m == s.sent + 1
      kept == IF there /\ tg.delete THEN MapDel(s.live, old) ELSE s.live
  IN  IF /\ fileObj.type = "photo" /\ fileObj.file_id # 0
         /\ tg.edit /\ there /\ ~IsText(s.live[old])
      THEN [s EXCEPT !.live = MapSet(s.live, old, "photo")]
      ELSE IF ~tg.send THEN s
      ELSE [live |-> MapSet(kept, m, KindSent(fileObj)), messageId |-> m, sent |-> m]

\* item fileObj is put in place of the displayed message of c
ReplacedBy(c, fileObj) ==
  /\ SurfaceOf(c).sent < lim.maxMessages
  /\ \E tg \in ReplaceOutcomes :
       surface' = MapSet(surface, c, replaceBrowseMessage(SurfaceOf(c), fileObj, tg))

\* the preview of the batch at pos of the session's order is put in place
\* of the displayed message (followed only where the chat is observed)
Replaced(c, order, pos) ==
  IF lim.observe
  THEN LET batch == readBatchFile(disk, order[pos + 1])
       IN  IF batch = NoBatch \/ batch.files = <<>> THEN surface' = surface
           ELSE ReplacedBy(c, batch.files[1])
  ELSE surface' = surface

\* browse_open has nothing to show: the order of the Index is empty, or its
\* last entry has no record or a record without items
nothingToBrowse(d) ==
  LET order == readIndex(d).order
  IN  IF order = <<>> THEN TRUE
      ELSE IF readBatchFile(d, order[Len(order)]) = NoBatch THEN TRUE
      ELSE readBatchFile(d, order[Len(order)]).files = <<>>

\* /browse and browse_open returning before the send
BrowseOpenEmpty(c) ==
  /\ Ready
  /\ nothingToBrowse(disk)
  /\ Handled(c, <<"browse_open">>,
             IF readIndex(disk).order = <<>> THEN "No batches available."
             ELSE "Latest batch has no files.")
  /\ UNCHANGED <<watcher, replacing, showing, raced, disk, wr, lastRead, pendingBatches, pendingAddTo,
                 naming, browseSessions, opening, drawn, nextItem, lim, surface, rest, renames,
                 acked, overlap>>

\* variant: a batch without items is previewed by its name
BrowseOpenStartAnyBatch(c) ==
  /\ Ready
  /\ LET order == readIndex(disk).order
         batch == readBatchFile(disk, order[Len(order)])
     IN  /\ Cardinality(opening) < lim.maxOpening
         /\ Len(order) > 0
         /\ batch # NoBatch
         /\ opening' = opening \cup
              {[chat |-> c, pos |-> Len(order) - 1, order |-> order,
                first |-> IF lim.observe /\ batch.files # <<>>
                          THEN KindSent(batch.files[1]) ELSE "text"]}
  /\ UNCHANGED <<watcher, replacing, showing, raced, disk, wr, lastRead, pendingBatches, pendingAddTo, naming, browseSessions,
                 drawn, nextItem, lim, last, surface, rest, renames, acked, overlap>>

\* /browse and browse_open up to the send of the preview; first is the kind of
\* message the first item of the batch makes (followed only where the chat is
\* observed)
BrowseOpenStart(c) ==
  /\ Ready
  /\ LET order == readIndex(disk).order
         batch == readBatchFile(disk, order[Len(order)])
     IN  /\ Cardinality(opening) < lim.maxOpening
         /\ Len(order) > 0
         /\ batch # NoBatch
         /\ Len(batch.files) > 0
         /\ opening' = opening \cup
              {[chat |-> c, pos |-> Len(order) - 1, order |-> order,
                first |-> IF lim.observe THEN KindSent(batch.files[1]) ELSE "text"]}
  /\ UNCHANGED <<watcher, replacing, showing, raced, disk, wr, lastRead, pendingBatches, pendingAddTo, naming, browseSessions,
                 drawn, nextItem, lim, last, surface, rest, renames, acked, overlap>>

\* variant: the session takes the order the index holds after the send
BrowseOpenFinishRereading(k, sent) ==
  /\ k \in opening
  /\ opening' = opening \ {k}
  /\ browseSessions' =
       IF sent THEN MapSet(browseSessions, k.chat,
                           [pos |-> k.pos, order |-> readIndex(disk).order, nav |-> Fresh])
       ELSE browseSessions
  /\ IF lim.observe /\ sent
     THEN LET cur == SurfaceOf(k.chat)
              m == cur.sent + 1
          IN  /\ cur.sent < lim.maxMessages
              /\ \E kind \in {k.first, "text"} :
                   surface' = MapSet(surface, k.chat,
                                [live |-> MapSet(cur.live, m, kind), messageId |-> m,
                                 sent |-> m])
     ELSE surface' = surface
  /\ showing' = IF lim.maxReplacing > 0 /\ sent
                 THEN MapSet(showing, k.chat, MapSet(EmptyMap, SurfaceOf(k.chat).sent + 1, k.pos))
                 ELSE showing
  /\ UNCHANGED <<watcher, replacing, raced, disk, wr, lastRead, pendingBatches, pendingAddTo, naming, drawn, nextItem,
                 lim, last, rest, renames, acked, overlap>>

\* browse_open after the send: sent says whether a preview message went out
BrowseOpenFinish(k, sent) ==
  /\ k \in opening
  /\ opening' = opening \ {k}
  /\ browseSessions' =
       IF sent THEN MapSet(browseSessions, k.chat,
                           [pos |-> k.pos, order |-> k.order, nav |-> Fresh])
       ELSE browseSessions
  /\ IF lim.observe /\ sent
     THEN LET cur == SurfaceOf(k.chat)
              m == cur.sent + 1
          IN  /\ cur.sent < lim.maxMessages
              /\ \E kind \in {k.first, "text"} :
                   surface' = MapSet(surface, k.chat,
                                [live |-> MapSet(cur.live, m, kind), messageId |-> m,
                                 sent |-> m])
     ELSE surface' = surface
  /\ showing' = IF lim.maxReplacing > 0 /\ sent
                 THEN MapSet(showing, k.chat, MapSet(EmptyMap, SurfaceOf(k.chat).sent + 1, k.pos))
                 ELSE showing
  /\ UNCHANGED <<watcher, replacing, raced, disk, wr, lastRead, pendingBatches, pendingAddTo, naming, drawn, nextItem,
                 lim, last, rest, renames, acked, overlap>>

\* Math.min(order.length - 1, pos + 1)
stepBack(pos, len) == IF len - 1 < pos + 1 THEN len - 1 ELSE pos + 1

\* variant: no clamp at the newest batch
stepForwardUnclamped(pos, len) == pos - 1

\* Math.max(0, pos - 1)
stepForward(pos, len) == IF 0 > pos - 1 THEN 0 ELSE pos - 1

\* variant: the step re-reads the order from the index
BrowseLeftRefreshing(c) ==
  /\ Ready
  /\ c \in DOMAIN browseSessions
  /\ browseSessions[c].nav.n < lim.maxNav
  /\ Len(readIndex(disk).order) > 0
  /\ browseSessions' = [browseSessions EXCEPT
       ![c].order = readIndex(disk).order,
       ![c].pos = stepBack(@, Len(readIndex(disk).order)),
       ![c].nav = Navigated(@, "back")]
  /\ UNCHANGED <<watcher, replacing, showing, raced, disk, wr, lastRead, pendingBatches, pendingAddTo, naming, opening,
                 drawn, nextItem, lim, last, surface, rest, renames, acked, overlap>>

\* browse_left: the older batch
BrowseLeft(c) ==
  /\ Ready
  /\ c \in DOMAIN browseSessions
  /\ browseSessions[c].nav.n < lim.maxNav
  /\ browseSessions' = [browseSessions EXCEPT
       ![c].pos = stepBack(@, Len(browseSessions[c].order)),
       ![c].nav = Navigated(@, "back")]
  /\ Replaced(c, browseSessions[c].order, stepBack(browseSessions[c].pos, Len(browseSessions[c].order)))
  /\ UNCHANGED <<watcher, replacing, showing, raced, disk, wr, lastRead, pendingBatches, pendingAddTo, naming, opening, drawn,
                 nextItem, lim, last, rest, renames, acked, overlap>>

\* browse_right: the newer batch
BrowseRight(c) ==
  /\ Ready
  /\ c \in DOMAIN browseSessions
  /\ browseSessions[c].nav.n < lim.maxNav
  /\ browseSessions' = [browseSessions EXCEPT
       ![c].pos = stepForward(@, Len(browseSessions[c].order)),
       ![c].nav = Navigated(@, "forward")]
  /\ Replaced(c, browseSessions[c].order, stepForward(browseSessions[c].pos, Len(browseSessions[c].order)))
  /\ UNCHANGED <<watcher, replacing, showing, raced, disk, wr, lastRead, pendingBatches, pendingAddTo, naming, opening, drawn,
                 nextItem, lim, last, rest, renames, acked, overlap>>

\* a replaceBrowseMessage call takes effect at once when every Telegram call
\* of it succeeds
Succeeds == [edit |-> TRUE, send |-> TRUE, delete |-> TRUE]

\* the calls of conversation c that are suspended
Suspended(c) == { k \in replacing : k.chat = c }

\* browse_left / browse_right up to the await of replaceBrowseMessage: the
\* position is stepped, the first item of the batch there is read, and the
\* call is made with the session's messageId of this moment; over marks the
\* calls that are suspended together with another call of the conversation
BrowseStepStart(c, data) ==
  /\ Ready
  /\ c \in DOMAIN browseSessions
  /\ browseSessions[c].nav.n < lim.maxNav
  /\ Cardinality(Suspended(c)) < lim.maxReplacing
  /\ LET session == browseSessions[c]
         pos == IF data = "browse_left" THEN stepBack(session.pos, Len(session.order))
                ELSE stepForward(session.pos, Len(session.order))
         batch == readBatchFile(disk, session.order[pos + 1])
     IN  /\ browseSessions' = [browseSessions EXCEPT
              ![c].pos = pos,
              ![c].nav = Navigated(@, IF data = "browse_left" THEN "back" ELSE "forward")]
         /\ replacing' =
              IF batch = NoBatch \/ batch.files = <<>> THEN replacing
              ELSE { IF k.chat = c THEN [k EXCEPT !.over = TRUE] ELSE k : k \in replacing } \cup
                   {[chat |-> c, oldMessageId |-> SurfaceOf(c).messageId, pos |-> pos,
                     fileObj |-> batch.files[1], step |-> session.nav.n,
                     over |-> Suspended(c) # {}]}
  /\ UNCHANGED <<watcher, raced, disk, wr, lastRead, pendingBatches, pendingAddTo, naming, opening, drawn,
                 nextItem, lim, last, surface, showing, rest, renames, acked, overlap>>

\* replaceBrowseMessage returns to the suspended handler k, which stores the
\* id of a new message in the session (`if (res && res.newMessage)
\* session.messageId = ...`): an edit leaves the session's messageId as it
\* is. The session the handler holds is the conversation's session (no
\* browse_open has replaced it meanwhile).
BrowseStepFinish(k, tg) ==
  /\ k \in replacing
  /\ k.chat \in DOMAIN browseSessions
  /\ SurfaceOf(k.chat).sent < lim.maxMessages
  /\ LET cur == SurfaceOf(k.chat)
         old == k.oldMessageId
         res == replaceBrowseMessage([cur EXCEPT !.messageId = old], k.fileObj, tg)
         edited == /\ k.fileObj.type = "photo" /\ k.fileObj.file_id # 0
                   /\ tg.edit /\ old \in DOMAIN cur.live /\ ~IsText(cur.live[old])
         newMessage == res.sent # cur.sent
         shown == IF k.chat \in DOMAIN showing THEN showing[k.chat] ELSE EmptyMap
     IN  /\ surface' = MapSet(surface, k.chat,
              [res EXCEPT !.messageId = IF newMessage THEN res.messageId ELSE cur.messageId])
         /\ showing' = MapSet(showing, k.chat,
              IF edited THEN MapSet(shown, old, k.pos)
              ELSE IF newMessage THEN MapSet(shown, res.messageId, k.pos)
              ELSE shown)
  /\ replacing' = replacing \ {k}
  /\ UNCHANGED <<watcher, raced, disk, wr, lastRead, pendingBatches, pendingAddTo, naming, browseSessions,
                 opening, drawn, nextItem, lim, last, rest, renames, acked, overlap>>

\* variant: the draw may reach len itself
randomPositionsInclusive(len) == 0..len

\* the values Math.floor(Math.random() * len) can take
randomPositions(len) == 0..(len - 1)

\* browse_random
BrowseRandom(c, r) ==
  /\ Ready
  /\ c \in DOMAIN browseSessions
  /\ browseSessions[c].nav.n < lim.maxNav
  /\ Len(browseSessions[c].order) > 0
  /\ r \in randomPositions(Len(browseSessions[c].order))
  /\ browseSessions' = [browseSessions EXCEPT
       ![c].pos = r,
       ![c].nav = Navigated(@, "random")]
  /\ Replaced(c, browseSessions[c].order, r)
  /\ UNCHANGED <<watcher, replacing, showing, raced, disk, wr, lastRead, pendingBatches, pendingAddTo, naming, opening, drawn,
                 nextItem, lim, last, rest, renames, acked, overlap>>

\* browse_list: editMessageText on the displayed message, which Telegram
\* accepts only for a text message; otherwise the list is sent as a message
\* of its own
showList(s, tg) ==
  IF tg.edit /\ s.messageId \in DOMAIN s.live /\ IsText(s.live[s.messageId])
  THEN [s EXCEPT !.live = MapSet(s.live, s.messageId, "list")]
  ELSE IF tg.send
  THEN [s EXCEPT !.live = MapSet(s.live, s.sent + 1, "list"), !.sent = s.sent + 1]
  ELSE s

BrowseList(c) ==
  /\ Ready
  /\ c \in DOMAIN browseSessions
  /\ SurfaceOf(c).sent < lim.maxMessages
  /\ LET sess == browseSessions[c]
         batch == readBatchFile(disk, sess.order[sess.pos + 1])
     IN  IF batch = NoBatch THEN surface' = surface
         ELSE \E tg \in [edit : BOOLEAN, send : BOOLEAN] :
                surface' = MapSet(surface, c, showList(SurfaceOf(c), tg))
  /\ UNCHANGED <<watcher, replacing, showing, raced, disk, wr, lastRead, pendingBatches, pendingAddTo, naming, browseSessions,
                 opening, drawn, nextItem, lim, last, rest, renames, acked, overlap>>

\* browse_file_<token>_<i>: item i (0-based) of the batch of the token
BrowseFile(c, token, fileIdx) ==
  /\ Ready
  /\ c \in DOMAIN browseSessions
  /\ LET fname == Lookup(readIndex(disk).tokens, token)
         batch == readBatchFile(disk, fname)
     IN  IF fname = Undefined \/ batch = NoBatch \/ fileIdx + 1 \notin DOMAIN batch.files
         THEN surface' = surface
         ELSE ReplacedBy(c, batch.files[fileIdx + 1])
  /\ UNCHANGED <<watcher, replacing, showing, raced, disk, wr, lastRead, pendingBatches, pendingAddTo, naming, browseSessions,
                 opening, drawn, nextItem, lim, last, rest, renames, acked, overlap>>

\* browse_back_to_preview
BrowseBackToPreview(c) ==
  /\ Ready
  /\ c \in DOMAIN browseSessions
  /\ Replaced(c, browseSessions[c].order, browseSessions[c].pos)
  /\ UNCHANGED <<watcher, replacing, showing, raced, disk, wr, lastRead, pendingBatches, pendingAddTo, naming, browseSessions,
                 opening, drawn, nextItem, lim, last, rest, renames, acked, overlap>>

\* browse_view: the files keyboard is put under the displayed message and
\* every item of the batch at the session's position is sent, then the rating
\* prompt
BrowseView(c) ==
  /\ Ready
  /\ c \in DOMAIN browseSessions
  /\ LET sess == browseSessions[c]
         batch == readBatchFile(disk, sess.order[sess.pos + 1])
     IN  Handled(c, <<"browse_view">>,
                 IF batch = NoBatch THEN "Batch missing."
                 ELSE IF batch.files = <<>> THEN "No files in this batch."
                 ELSE "Rate this batch")
  /\ UNCHANGED <<watcher, replacing, showing, raced, disk, wr, lastRead, pendingBatches, pendingAddTo, naming, browseSessions,
                 opening, drawn, nextItem, lim, surface, rest, renames, acked, overlap>>

\* variant: closing the files view ends the session
BrowseFilesCloseEnding(c) ==
  /\ Ready
  /\ c \in DOMAIN browseSessions
  /\ browseSessions' = MapDel(browseSessions, c)
  /\ LET sess == browseSessions[c]
         batch == readBatchFile(disk, sess.order[sess.pos + 1])
     IN  Handled(c, <<"browse_files_close">>,
                 IF batch = NoBatch THEN "Batch missing" ELSE "")
  /\ UNCHANGED <<watcher, replacing, showing, raced, disk, wr, lastRead, pendingBatches, pendingAddTo, naming,
                 opening, drawn, nextItem, lim, surface, rest, renames, acked, overlap>>

\* browse_files_close: the browse keyboard is put back under the displayed
\* message
BrowseFilesClose(c) ==
  /\ Ready
  /\ c \in DOMAIN browseSessions
  /\ LET sess == browseSessions[c]
         batch == readBatchFile(disk, sess.order[sess.pos + 1])
     IN  Handled(c, <<"browse_files_close">>,
                 IF batch = NoBatch THEN "Batch missing" ELSE "")
  /\ UNCHANGED <<watcher, replacing, showing, raced, disk, wr, lastRead, pendingBatches, pendingAddTo, naming, browseSessions,
                 opening, drawn, nextItem, lim, surface, rest, renames, acked, overlap>>

\* ------------------------------------------------------ token lookup cache

KeyTtl == 30 * 60 * 1000
SweepEvery == 10 * 60 * 1000
PageSize == 8

\* makeCbKey: 'k' and the seven base-36 digits r that
\* Math.random().toString(36).slice(2, 9) gives
makeCbKey(r) == <<"k">> \o r

IsBracket(c) == c \in {"(", ")", "[", "]", "{", "}", "/", "*"}

\* cleanedDisplay
cleanDisplay(displayRaw) ==
  Trim(CollapseWs(SelectSeq(displayRaw, LAMBDA c : ~IsBracket(c))))

\* the rows of page p of the index: for each the label and the tokens the row
\* can carry (rev[displayRaw], else the first token mapped to the file name;
\* none for '')
indexRows(d, page) ==
  LET idx == readIndex(d)
      total == Len(idx.order)
      totalPages == IF total = 0 THEN 1 ELSE (total + PageSize - 1) \div PageSize
      p == IF page < 0 THEN 0 ELSE IF page >= totalPages THEN totalPages - 1 ELSE page
      start == p * PageSize
      slice == SubSeq(idx.order, start + 1, Min({total, start + PageSize}))
      Row(fname) ==
        LET batch == readBatchFile(d, fname)
            displayRaw == IF batch # NoBatch /\ batch.display_name # <<>>
                          THEN batch.display_name ELSE fname
            byDisplay == { t \in DOMAIN idx.tokens : idx.tokens[t] = displayRaw }
            byName == { t \in DOMAIN idx.tokens : idx.tokens[t] = fname }
        IN  [display |-> cleanDisplay(displayRaw),
             tokens |-> IF byDisplay # {} THEN byDisplay ELSE byName]
  IN  [i \in DOMAIN slice |-> Row(slice[i])]

\* __callbackTokenMap[key] = { token, display, createdAt: Date.now() }
put(map, key, token, display, t) ==
  MapSet(map, key, [token |-> token, display |-> display, createdAt |-> t])

Absent == [found |-> FALSE, token |-> <<>>, display |-> <<>>]

\* copytoken: rec = __callbackTokenMap[key]; absent when !rec || !rec.token
resolve(map, key) ==
  IF key \in DOMAIN map /\ map[key].token # <<>>
  THEN [found |-> TRUE, token |-> map[key].token, display |-> map[key].display]
  ELSE Absent

\* Object.keys(idx.tokens).find(...) per row: one of the row's tokens, or
\* none (<<>>) when the row has no token; the choices for rows i..Len(rows)
RECURSIVE rowTokens(_, _)
rowTokens(rows, i) ==
  IF i > Len(rows) THEN { <<>> }
  ELSE { <<p>> \o later :
           p \in (IF rows[i].tokens = {} THEN { <<>> } ELSE rows[i].tokens),
           later \in rowTokens(rows, i + 1) }

\* the puts of one rendering, row by row: draws[i] is the key drawn for row i,
\* picks[i] the token of row i
RECURSIVE putRows(_, _, _, _, _, _)
putRows(map, rows, picks, draws, t, i) ==
  IF i > Len(rows) THEN map
  ELSE putRows(IF picks[i] # <<>>
               THEN put(map, makeCbKey(draws[i]), picks[i], rows[i].display, t)
               ELSE map,
               rows, picks, draws, t, i + 1)

\* buildIndexTextAndKeyboardQuick, called for view_index and the page buttons
RenderIndex(c, page, draws) ==
  /\ Cardinality(buttons) < lim.maxButtons
  /\ LET rows == indexRows(disk, page)
     IN  /\ Len(rows) > 0
         /\ DOMAIN draws = DOMAIN rows
         /\ \E picks \in rowTokens(rows, 1) :
              /\ callbackTokenMap' = putRows(callbackTokenMap, rows, picks, draws, clock, 1)
              /\ buttons' = buttons \cup
                   { [key |-> makeCbKey(draws[i]), token |-> picks[i],
                      display |-> rows[i].display, createdAt |-> clock] :
                       i \in { j \in DOMAIN rows : picks[j] # <<>> } }
  /\ Handled(c, <<"view_index", page>>, "index")
  /\ UNCHANGED <<watcher, replacing, showing, raced, disk, wr, lastRead, pendingBatches, pendingAddTo, naming, browseSessions,
                 opening, drawn, nextItem, lim, renames, acked, overlap, clock, sweepAt,
                 surface, redeeming, gen>>

\* copytoken|<key>
CopyToken(c, key) ==
  /\ Handled(c, <<"copytoken", key>>,
             IF resolve(callbackTokenMap, key).found THEN "Token for"
             ELSE "Token expired or unavailable")
  /\ UNCHANGED <<watcher, replacing, showing, raced, disk, wr, lastRead, pendingBatches, pendingAddTo, naming, browseSessions,
                 opening, drawn, nextItem, lim, renames, acked, overlap, callbackTokenMap,
                 clock, sweepAt, surface, redeeming, gen, buttons>>

\* variant: the cleanup also deletes the entries created exactly at the cutoff
SweepAtCutoff ==
  /\ clock >= sweepAt
  /\ LET cutoff == clock - KeyTtl
     IN  callbackTokenMap' =
           [k \in { q \in DOMAIN callbackTokenMap :
                      ~(callbackTokenMap[q].createdAt <= cutoff) } |-> callbackTokenMap[k]]
  /\ sweepAt' = sweepAt + SweepEvery
  /\ UNCHANGED <<watcher, replacing, showing, raced, disk, wr, lastRead, pendingBatches, pendingAddTo, naming, browseSessions,
                 opening, drawn, nextItem, lim, renames, acked, overlap, clock, last,
                 surface, redeeming, gen, buttons>>

\* the cleanup timer fires
Sweep ==
  /\ clock >= sweepAt
  /\ LET cutoff == clock - KeyTtl
     IN  callbackTokenMap' =
           [k \in { q \in DOMAIN callbackTokenMap :
                      ~(callbackTokenMap[q].createdAt < cutoff) } |-> callbackTokenMap[k]]
  /\ sweepAt' = sweepAt + SweepEvery
  /\ UNCHANGED <<watcher, replacing, showing, raced, disk, wr, lastRead, pendingBatches, pendingAddTo, naming, browseSessions,
                 opening, drawn, nextItem, lim, renames, acked, overlap, clock, last,
                 surface, redeeming, gen, buttons>>

\* time passes; a timer that is due fires before more time passes
Tick ==
  /\ clock < sweepAt
  /\ clock + lim.quantum <= lim.maxClock
  /\ clock' = clock + lim.quantum
  /\ UNCHANGED <<watcher, replacing, showing, raced, disk, wr, lastRead, pendingBatches, pendingAddTo, naming, browseSessions,
                 opening, drawn, nextItem, lim, renames, acked, overlap, callbackTokenMap,
                 sweepAt, last, surface, redeeming, gen, buttons>>

\* ------------------------------------------------------------ the program

Foo == <<"F", "o", "o">>
Star == <<"U+2605">>

Photo(caption) ==
  [type |-> "photo", caption |-> caption, file_name |-> <<>>,
   mime_type |-> "image/jpeg", hasFile |-> TRUE]

Document(caption, file_name, mime_type) ==
  [type |-> "document", caption |-> caption, file_name |-> file_name,
   mime_type |-> mime_type, hasFile |-> TRUE]

TextItem ==
  [type |-> "text", caption |-> <<>>, file_name |-> <<>>, mime_type |-> "",
   hasFile |-> FALSE]

NoWrite == [pc |-> "idle", filepath |-> <<>>, data |-> Raised, before |-> Raised]

NoRead == [op |-> "none", loadable |-> FALSE, result |-> Raised]

NoToken == [rnd |-> <<>>, token |-> <<>>]

InitWith(d, l) ==
  /\ disk = d
  /\ wr = NoWrite
  /\ lastRead = NoRead
  /\ pendingBatches = EmptyMap
  /\ pendingAddTo = EmptyMap
  /\ naming = {}
  /\ browseSessions = EmptyMap
  /\ opening = {}
  /\ drawn = 0
  /\ nextItem = 1
  /\ lim = l
  /\ renames = EmptyMap
  /\ acked = {}
  /\ overlap = {}
  /\ callbackTokenMap = EmptyMap
  /\ clock = 0
  /\ sweepAt = SweepEvery
  /\ last = NoUpdate
  /\ surface = EmptyMap
  /\ redeeming = EmptyMap
  /\ gen = NoToken
  /\ buttons = {}
  /\ raced = {}
  /\ replacing = {}
  /\ showing = EmptyMap
  /\ knownTokens = EmptyMap
  /\ indexTimer = NoTimer
  /\ watching = FALSE
  /\ notified = <<>>
  /\ announced = {}

KnownTokens == DOMAIN readIndex(disk).tokens

IoOutcomes == {NoIo} \cup { [ok |-> TRUE, chunk |-> ch] : ch \in lim.chunks }

NoLim ==
  [seq |-> FALSE, maxTokens |-> 0, maxItems |-> 0, maxOpening |-> 0, maxNav |-> 0, names |-> {},
   inputs |-> {}, chunks |-> {}, observe |-> FALSE, maxButtons |-> 0, quantum |-> 0,
   maxClock |-> 0, keys |-> {}, strangers |-> {}, maxMessages |-> 0,
   maxReplacing |-> 0]

\* Spec: handlers of independent updates interleave at their awaits
MaxTokens == 2
MaxItems == 2

LimMain ==
  [NoLim EXCEPT !.maxTokens = MaxTokens, !.maxItems = MaxItems,
     !.names = {<<"A">>}, !.inputs = {Photo(Foo), TextItem}]

Init == InitWith(EmptyMap, LimMain)

Next ==
  \/ SendFileCmd(AuthorChat)
  \/ \E text \in lim.names : FilenameText(AuthorChat, text)
  \/ \E inp \in lim.inputs : AppendItem(AuthorChat, inp)
  \/ DoneAdd(AuthorChat)
  \/ \E token \in KnownTokens : AddToCmd(AppendChat, token)
  \/ \E inp \in lim.inputs : AppendExisting(AppendChat, inp)
  \/ DoneAddTo(AppendChat)
  \/ \E token \in KnownTokens : DeleteFile(token)
  \/ \E k \in naming : \E io \in IoOutcomes : AutoNameResume(k, io)

Spec == Init /\ [][Next]_vars

\* SeqSpec: one handler at a time, no update is handled while another handler
\* is suspended
SeqMaxTokens == 3
SeqMaxItems == 2

LimSeq ==
  [NoLim EXCEPT !.seq = TRUE, !.maxTokens = SeqMaxTokens, !.maxItems = SeqMaxItems,
     !.names = {<<"A">>, <<"a", " ", "b">>},
     !.inputs = {Photo(Foo), Photo(Star), TextItem}]

SeqInit == InitWith(EmptyMap, LimSeq)

SeqNext ==
  \/ SendFileCmd(AuthorChat)
  \/ \E text \in lim.names : FilenameText(AuthorChat, text)
  \/ \E inp \in lim.inputs : AppendItem(AuthorChat, inp)
  \/ DoneAdd(AuthorChat)
  \/ \E token \in KnownTokens : DeleteFile(token)
  \/ \E k \in naming : \E io \in IoOutcomes : AutoNameResume(k, io)

SeqSpec == SeqInit /\ [][SeqNext]_vars

\* BrowseSpec: a viewer browses while the admin changes the index; the
\* browse_open handlers interleave with every other handler
BrowseMaxTokens == 2
MaxOpening == 1
MaxNav == 2

LimBrowse ==
  [NoLim EXCEPT !.seq = TRUE, !.maxTokens = BrowseMaxTokens,
     !.maxItems = BrowseMaxTokens, !.maxOpening = MaxOpening, !.maxNav = MaxNav,
     !.inputs = {Photo(Foo)}]

BrowseInit == InitWith(EmptyMap, LimBrowse)

BrowseNext ==
  \/ \E inp \in lim.inputs : AppendItem(AuthorChat, inp)
  \/ DoneAdd(AuthorChat)
  \/ \E k \in naming : \E io \in IoOutcomes : AutoNameResume(k, io)
  \/ \E token \in KnownTokens : DeleteFile(token)
  \/ \E token \in KnownTokens : IndexUp(token)
  \/ \E token \in KnownTokens : IndexDown(token)
  \/ BrowseOpenStart(ViewerChat)
  \/ \E k \in opening : \E sent \in BOOLEAN : BrowseOpenFinish(k, sent)
  \/ BrowseLeft(ViewerChat)
  \/ BrowseRight(ViewerChat)
  \/ \E r \in 0..(lim.maxTokens - 1) : BrowseRandom(ViewerChat, r)

BrowseSpec == BrowseInit /\ [][BrowseNext]_vars

\* NamingSpec: the auto-naming of a batch from its first item, one handler at
\* a time, over captions, file names and file heads of many shapes
NamingMaxTokens == 2
NamingMaxItems == 2

Token(n) == generateToken(RandomBytes(n))

Bar == <<"B", "a", "r">>
MovieFoo ==
  <<"M", "o", "v", "i", "e", ":", " ", "F", "o", "o", " ", "[", "2", "0", "2", "0", "]",
    "LF", "r", "e", "s", "t">>
FooPadded == <<"F", "o", "o", " ", "LF", "b", "a", "r">>
LongCaption == Rep("x", DisplayMax - 1) \o <<" ", "y", "z">>
DotMkv == <<".", "m", "k", "v">>
DotTxt == <<".", "t", "x", "t">>

LimNaming ==
  [NoLim EXCEPT !.seq = TRUE, !.maxTokens = NamingMaxTokens,
     !.maxItems = NamingMaxItems,
     !.names = {Foo \o <<"_">> \o Token(2)},
     !.inputs = {Photo(MovieFoo), Photo(FooPadded), Photo(LongCaption), Photo(Star),
                 Document(<<>>, Bar \o DotMkv, "video/x-matroska"),
                 Document(<<>>, Star \o DotMkv, "video/x-matroska"),
                 Document(<<>>, Bar \o DotTxt, "text/plain"),
                 TextItem},
     !.chunks = {Foo \o <<"LF">>, Star, <<>>}]

NamingInit == InitWith(EmptyMap, LimNaming)

NamingNext ==
  \/ SendFileCmd(AuthorChat)
  \/ \E text \in lim.names : FilenameText(AuthorChat, text)
  \/ \E inp \in lim.inputs : AppendItem(AuthorChat, inp)
  \/ DoneAdd(AuthorChat)
  \/ \E k \in naming : \E io \in IoOutcomes : AutoNameResume(k, io)

NamingSpec == NamingInit /\ [][NamingNext]_vars

\* StoreSpec: atomicWriteFileSync step by step, with a process that can stop
\* inside it, and reads by this or another process (the watcher of bot2.js
\* reads the index file) at every step. The data directory the process starts
\* with may hold files that do not load.
BatchA == <<"A">>

Idx1 == [tokens |-> MapSet(<<>>, Token(1), BatchA), order |-> <<BatchA>>]
Idx2 == [tokens |-> MapSet(Idx1.tokens, Token(2), Foo), order |-> <<BatchA, Foo>>]

Batch1 == NewBatch(BatchA, Token(1), AuthorChat)
Batch2 == [Batch1 EXCEPT !.files = <<FileMeta(TextItem, 1)>>]

\* the paths written, with the records the program writes to each
StoreWrites ==
  { [filepath |-> INDEX_FILE, data |-> IndexRecord(idx)] : idx \in {Idx1, Idx2} }
    \cup { [filepath |-> filenameToPath(BatchA), data |-> b] : b \in {Batch1, Batch2} }

\* no file at a path
NoFile == [kind |-> "missing"]

Place(d, path, content) == IF content = NoFile THEN d ELSE Put(d, path, content)

\* the data directories the process can start with
StoreDisks ==
  { Place(Place(EmptyMap, INDEX_FILE, i), filenameToPath(BatchA), b) :
      i \in {NoFile, Torn(IndexRecord(Idx1)), IndexRecord(Idx1)},
      b \in {NoFile, Torn(Batch1), Batch1} }

StoreInit == \E d \in StoreDisks : InitWith(d, NoLim)

memory == <<pendingBatches, pendingAddTo, naming, browseSessions, opening, drawn,
            nextItem, lim, renames, acked, overlap, last, surface, rest>>

\* atomicWriteFileSync is called (by a process that runs, or that was started
\* again after it stopped); fs.writeFileSync has opened and truncated tmp
WriteOpen(w) ==
  /\ wr.pc \in {"idle", "done", "stopped"}
  /\ disk' = Put(disk, tmpPath(w.filepath), Torn(w.data))
  /\ wr' = [pc |-> "opened", filepath |-> w.filepath, data |-> w.data,
            before |-> Load(disk, w.filepath)]
  /\ UNCHANGED <<watcher, replacing, showing, raced, lastRead, memory>>

\* fs.writeFileSync has written all of data to tmp
WriteFill ==
  /\ wr.pc = "opened"
  /\ disk' = Put(disk, tmpPath(wr.filepath), wr.data)
  /\ wr' = [wr EXCEPT !.pc = "written"]
  /\ UNCHANGED <<watcher, replacing, showing, raced, lastRead, memory>>

\* fs.renameSync(tmp, filepath)
WriteRename ==
  /\ wr.pc = "written"
  /\ disk' = Rename(disk, tmpPath(wr.filepath), wr.filepath)
  /\ wr' = [wr EXCEPT !.pc = "done"]
  /\ UNCHANGED <<watcher, replacing, showing, raced, lastRead, memory>>

\* the process stops inside atomicWriteFileSync
Stop ==
  /\ wr.pc \in {"opened", "written"}
  /\ wr' = [wr EXCEPT !.pc = "stopped"]
  /\ UNCHANGED <<watcher, replacing, showing, raced, disk, lastRead, memory>>

\* a call of readIndex
ReadIndexCall ==
  /\ lastRead' = [op |-> "readIndex", loadable |-> Loadable(disk, INDEX_FILE),
                  result |-> readIndex(disk)]
  /\ UNCHANGED <<watcher, replacing, showing, raced, disk, wr, memory>>

\* a call of readBatchFile
ReadBatchCall(filename) ==
  /\ lastRead' = [op |-> "readBatchFile",
                  loadable |-> Loadable(disk, filenameToPath(filename)),
                  result |-> readBatchFile(disk, filename)]
  /\ UNCHANGED <<watcher, replacing, showing, raced, disk, wr, memory>>

StoreNext ==
  \/ \E w \in StoreWrites : WriteOpen(w)
  \/ WriteFill
  \/ WriteRename
  \/ Stop
  \/ ReadIndexCall
  \/ ReadBatchCall(BatchA)

StoreSpec == StoreInit /\ [][StoreNext]_vars

\* CacheSpec: the index is rendered and its Token buttons are pressed while
\* time passes and the cleanup timer fires. Math.random() may give the same
\* digits more than once.
MaxTicks == 8
MaxButtons == 3

\* the step of the clock of the run: five minutes
Quantum == 5 * 60 * 1000

FooYear == Foo \o <<" ", "[", "2", "0", "2", "0", "]">>

CacheDisk ==
  Put(Put(Put(EmptyMap, INDEX_FILE, IndexRecord(Idx2)),
          filenameToPath(BatchA), Batch2),
      filenameToPath(Foo),
      [NewBatch(Foo, Token(2), AuthorChat) EXCEPT !.display_name = FooYear])

LimCache ==
  [NoLim EXCEPT !.observe = TRUE, !.maxButtons = MaxButtons, !.quantum = Quantum,
     !.maxClock = MaxTicks * Quantum, !.keys = {Rep("a", 7), Rep("b", 7)}]

CacheInit == InitWith(CacheDisk, LimCache)

CacheNext ==
  \/ \E draws \in [DOMAIN indexRows(disk, 0) -> lim.keys] :
       RenderIndex(ViewerChat, 0, draws)
  \/ \E r \in lim.keys : CopyToken(ViewerChat, makeCbKey(r))
  \/ Sweep
  \/ Tick

CacheSpec == CacheInit /\ [][CacheNext]_vars

\* AdminSpec: the admin's commands in one conversation, one handler at a
\* time: batches are opened, filled, finalized and deleted, and /addto is
\* given tokens of the Index, tokens that are not in it, and other words
AdminMaxTokens == 2
AdminMaxItems == 2

AllTokens == { Token(n) : n \in 1..lim.maxTokens }

LimAdmin ==
  [NoLim EXCEPT !.seq = TRUE, !.observe = TRUE, !.maxTokens = AdminMaxTokens,
     !.maxItems = AdminMaxItems, !.names = {<<"A">>},
     !.inputs = {Photo(Foo), TextItem},
     !.strangers = {Token(AdminMaxTokens + 1),
                    <<"c", "o", "n", "s", "t", "r", "u", "c", "t", "o", "r">>}]

AdminInit == InitWith(EmptyMap, LimAdmin)

AdminNext ==
  \/ SendFileCmd(AuthorChat)
  \/ \E text \in lim.names : FilenameText(AuthorChat, text)
  \/ \E inp \in lim.inputs : AppendItem(AuthorChat, inp)
  \/ DoneAdd(AuthorChat)
  \/ \E k \in naming : \E io \in IoOutcomes : AutoNameResume(k, io)
  \/ \E token \in AllTokens \cup lim.strangers : AddToCmd(AuthorChat, token)
  \/ \E inp \in lim.inputs : AppendExisting(AuthorChat, inp)
  \/ DoneAddTo(AuthorChat)
  \/ \E token \in KnownTokens : DeleteFile(token)

AdminSpec == AdminInit /\ [][AdminNext]_vars

\* ---------------------------------------------------------------- restart

\* the process runs and is not inside atomicWriteFileSync
Running == wr.pc \in {"idle", "done"}

\* index_up_<token>: the handler has reached its writeIndex, whose steps follow
IndexUpWrite(token) ==
  /\ Running
  /\ LET idx == readIndex(disk)
         pos == IndexOf(idx.order, idx.tokens[token])
     IN  /\ token \in DOMAIN idx.tokens
         /\ pos > 1
         /\ WriteOpen([filepath |-> INDEX_FILE,
                       data |-> IndexRecord([idx EXCEPT !.order = Swap(idx.order, pos - 1, pos)])])

\* what a restart finds: transient state to lose, or none
Interrupted ==
  IF \/ ~Running \/ naming # {} \/ opening # {}
     \/ pendingBatches # EmptyMap \/ pendingAddTo # EmptyMap
     \/ browseSessions # EmptyMap \/ callbackTokenMap # EmptyMap
  THEN "sessions" ELSE "nothing"

RestartKeepingSessions ==
  /\ wr' = NoWrite
  /\ lastRead' = NoRead
  /\ pendingAddTo' = EmptyMap
  /\ naming' = {}
  /\ browseSessions' = EmptyMap
  /\ opening' = {}
  /\ replacing' = {}
  /\ callbackTokenMap' = EmptyMap
  /\ redeeming' = EmptyMap
  /\ sweepAt' = clock + SweepEvery
  /\ last' = [tick |-> ~last.tick, chat |-> "", update |-> <<"restart">>,
              reply |-> Interrupted]
  /\ UNCHANGED <<watcher, showing, raced, disk, pendingBatches, drawn, nextItem, lim, renames, acked, overlap, clock,
                 surface, gen, buttons>>

\* the process stops at any point and is started again: the module is
\* loaded anew (its objects are empty, its suspended handlers are gone, the
\* cleanup timer is set again) and nothing under DATA_DIR is written
Restart ==
  /\ wr' = NoWrite
  /\ lastRead' = NoRead
  /\ pendingBatches' = EmptyMap
  /\ pendingAddTo' = EmptyMap
  /\ naming' = {}
  /\ browseSessions' = EmptyMap
  /\ opening' = {}
  /\ replacing' = {}
  /\ callbackTokenMap' = EmptyMap
  /\ redeeming' = EmptyMap
  /\ sweepAt' = clock + SweepEvery
  /\ last' = [tick |-> ~last.tick, chat |-> "", update |-> <<"restart">>,
              reply |-> Interrupted]
  /\ UNCHANGED <<watcher, showing, raced, disk, drawn, nextItem, lim, renames, acked, overlap, clock, surface, gen,
                 buttons>>

\* RestartSpec: two batches are stored; the admin opens a batch by sending
\* an item and starts to append to a stored one, a viewer opens a browse
\* session and has the index rendered, the admin moves the second batch up
\* (the write of the index is taken step by step),
\* and the process is restarted at any of these points
RestartMaxTokens == 1
RestartMaxItems == 1

\* tokens drawn before the run
Stored(n) == Token(10 + n)

RestartDisk ==
  Put(Put(Put(EmptyMap, INDEX_FILE,
              IndexRecord([tokens |-> MapSet(MapSet(EmptyMap, Stored(1), BatchA), Stored(2), Foo),
                           order |-> <<BatchA, Foo>>])),
          filenameToPath(BatchA),
          [NewBatch(BatchA, Stored(1), AuthorChat) EXCEPT !.files = <<FileMeta(TextItem, 11)>>]),
      filenameToPath(Foo),
      [NewBatch(Foo, Stored(2), AuthorChat) EXCEPT !.files = <<FileMeta(Photo(Foo), 12)>>])

LimRestart ==
  [NoLim EXCEPT !.seq = TRUE, !.maxTokens = RestartMaxTokens, !.maxItems = RestartMaxItems,
     !.inputs = {Photo(Bar)}, !.maxOpening = 1, !.maxButtons = 1, !.keys = {Rep("a", 7)}]

RestartInit == InitWith(RestartDisk, LimRestart)

RestartNext ==
  \/ Running /\ \E inp \in lim.inputs : AppendItem(AuthorChat, inp)
  \/ Running /\ \E k \in naming : \E io \in IoOutcomes : AutoNameResume(k, io)
  \/ Running /\ \E token \in KnownTokens : AddToCmd(AppendChat, token)
  \/ Running /\ BrowseOpenStart(ViewerChat)
  \/ Running /\ \E k \in opening : BrowseOpenFinish(k, TRUE)
  \/ Running /\ \E draws \in [DOMAIN indexRows(disk, 0) -> lim.keys] :
                  RenderIndex(ViewerChat, 0, draws)
  \/ IndexUpWrite(Stored(2))
  \/ WriteFill
  \/ WriteRename
  \/ Restart

RestartSpec == RestartInit /\ [][RestartNext]_vars

\* ------------------------------------------------------- browse messages

\* SurfaceSpec: one viewer browses two stored batches (a text, and a photo
\* followed by a text) and the messages in the viewer's chat are followed;
\* every Telegram call of a transition can succeed or fail
SurfaceMaxNav == 2
MaxMessages == 3

SurfaceDisk ==
  Put(Put(Put(EmptyMap, INDEX_FILE, IndexRecord(Idx2)),
          filenameToPath(BatchA), Batch2),
      filenameToPath(Foo),
      [NewBatch(Foo, Token(2), AuthorChat) EXCEPT
         !.files = <<FileMeta(Photo(Foo), 2), FileMeta(TextItem, 3)>>])

LimSurface ==
  [NoLim EXCEPT !.observe = TRUE, !.maxTokens = 2, !.maxOpening = 1,
     !.maxNav = SurfaceMaxNav, !.maxMessages = MaxMessages]

SurfaceInit == InitWith(SurfaceDisk, LimSurface)

SurfaceNext ==
  \/ BrowseOpenStart(ViewerChat)
  \/ \E k \in opening : \E sent \in BOOLEAN : BrowseOpenFinish(k, sent)
  \/ BrowseLeft(ViewerChat)
  \/ BrowseRight(ViewerChat)
  \/ \E r \in 0..1 : BrowseRandom(ViewerChat, r)
  \/ BrowseList(ViewerChat)
  \/ \E token \in AllTokens : \E fileIdx \in 0..1 : BrowseFile(ViewerChat, token, fileIdx)
  \/ BrowseBackToPreview(ViewerChat)

SurfaceSpec == SurfaceInit /\ [][SurfaceNext]_vars

\* ---------------------------------------------------------------- tokens

\* generateToken() is called: crypto.randomBytes gives rnd
Draw(rnd) ==
  /\ gen' = [rnd |-> rnd, token |-> generateToken(rnd)]
  /\ UNCHANGED <<watcher, replacing, showing, raced, disk, wr, lastRead, pendingBatches, pendingAddTo, naming, browseSessions,
                 opening, drawn, nextItem, lim, renames, acked, overlap, callbackTokenMap,
                 clock, sweepAt, last, surface, redeeming, buttons>>

\* TokenSpec: tokens are made of byte strings b, b + s, b + 2s, ... (mod 256)
\* for every byte b and the strides s up to MaxStride, so that every byte
\* value occurs at every position
MaxStride == 2

Bytes == 0..255

ByteStrings ==
  { [i \in 1..TokenLen |-> (b + s * (i - 1)) % 256] : b \in Bytes, s \in 0..MaxStride }

TokenInit == InitWith(EmptyMap, NoLim)

TokenNext == \E rnd \in ByteStrings : Draw(rnd)

TokenSpec == TokenInit /\ [][TokenNext]_vars

\* ------------------------------------------------------------- reordering

\* what the file_up / file_down callback answers: parts[2] is the token and
\* idxNum = Number(parts[3]), 0-based
moveReply(d, from, action, token, idxNum) ==
  LET filename == Lookup(readIndex(d).tokens, token)
      batch == readBatchFile(d, filename)
  IN  IF from # AuthorChat THEN "Admin only"
      ELSE IF filename = Undefined THEN "Batch not found"
      ELSE IF batch = NoBatch THEN "Batch missing"
      ELSE IF idxNum < 0 \/ idxNum >= Len(batch.files) THEN "Invalid file index"
      ELSE IF action = "up"
           THEN IF idxNum <= 0 THEN "Already at top" ELSE "Moved up"
           ELSE IF idxNum >= Len(batch.files) - 1 THEN "Already at bottom" ELSE "Moved down"

\* callback_query file_up_<token>_<i> / file_down_<token>_<i> pressed by
\* `from` (AuthorChat is the admin)
FileMove(from, action, token, idxNum) ==
  /\ Ready
  /\ LET filename == Lookup(readIndex(disk).tokens, token)
         batch == readBatchFile(disk, filename)
         reply == moveReply(disk, from, action, token, idxNum)
     IN  /\ disk' =
               IF reply = "Moved up"
               THEN writeBatchFile(disk, filename,
                      [batch EXCEPT !.files = Swap(@, idxNum, idxNum + 1)])
               ELSE IF reply = "Moved down"
               THEN writeBatchFile(disk, filename,
                      [batch EXCEPT !.files = Swap(@, idxNum + 2, idxNum + 1)])
               ELSE disk
         /\ Handled(from, <<IF action = "up" THEN "file_up" ELSE "file_down", token, idxNum>>,
                    reply)
  /\ UNCHANGED <<watcher, replacing, showing, raced, wr, lastRead, pendingBatches, pendingAddTo, naming, browseSessions, opening,
                 drawn, nextItem, lim, surface, rest, renames, acked, overlap>>

\* ManageSpec: the admin opens batches by name (two names that differ in
\* one character), adds items, presses the up and down buttons of the file
\* list with indexes inside and outside the list, and deletes batches; a
\* viewer presses the buttons too
ManageMaxTokens == 2
ManageMaxItems == 2

LimManage ==
  [NoLim EXCEPT !.seq = TRUE, !.observe = TRUE, !.maxTokens = ManageMaxTokens,
     !.maxItems = ManageMaxItems, !.names = {<<"a", " ", "b">>, <<"a", "_", "b">>},
     !.inputs = {Photo(Foo)}, !.strangers = {Token(ManageMaxTokens + 1)}]

ManageInit == InitWith(EmptyMap, LimManage)

ManageNext ==
  \/ SendFileCmd(AuthorChat)
  \/ \E text \in lim.names : FilenameText(AuthorChat, text)
  \/ \E inp \in lim.inputs : AppendItem(AuthorChat, inp)
  \/ DoneAdd(AuthorChat)
  \/ \E k \in naming : \E io \in IoOutcomes : AutoNameResume(k, io)
  \/ \E action \in {"up", "down"} : \E token \in AllTokens \cup lim.strangers :
       \E idxNum \in -1..lim.maxItems : FileMove(AuthorChat, action, token, idxNum)
  \/ \E action \in {"up", "down"} : \E token \in AllTokens :
       FileMove(ViewerChat, action, token, 0)
  \/ \E token \in KnownTokens : DeleteFile(token)

ManageSpec == ManageInit /\ [][ManageNext]_vars

\* -------------------------------------------------------------- redeeming

\* a forwarded message without media: the handler stores type 'forward' with
\* source_chat_id and source_message_id, and no file_id
Forwarded ==
  [type |-> "forward", caption |-> <<>>, file_name |-> <<>>, mime_type |-> "",
   hasFile |-> FALSE]

\* f.text: set for the items of type 'text' (the message's non-empty text)
hasText(f) == f.type = "text"

\* f.source_chat_id && f.source_message_id: set for the items of type 'forward'
hasSource(f) == f.type = "forward"

TokenNotFound == "Token not found. Try Browse or inline search."
BatchMissing == "Batch missing."
RatePrompt == "Rate this batch (1-10):"

\* what Telegram does with the calls of one delivery: the first call, the
\* call made again after ECONNRESET, and the call by file_id after a copy failed
TelegramOutcomes ==
  [first : {"ok", "ECONNRESET", "error"}, again : {"ok", "error"}, fallback : {"ok", "error"}]

\* attemptSendWithRetry: TRUE when it returns, FALSE when it throws
attemptSendWithRetry(tg) ==
  IF tg.first = "ok" THEN TRUE
  ELSE IF tg.first = "ECONNRESET" THEN tg.again = "ok"
  ELSE FALSE

sendBatchItemToChatNoCatch(f, tg) ==
  LET sent == attemptSendWithRetry(tg)
      done(effect) == [thrown |-> FALSE, effect |-> effect]
  IN  IF hasText(f) \/ (f.type \in {"document", "photo", "video", "audio"} /\ f.file_id # 0)
      THEN IF sent THEN done("sent") ELSE [thrown |-> TRUE, effect |-> "send file fail"]
      ELSE IF hasSource(f)
      THEN IF sent THEN done("copied")
           ELSE IF f.file_id # 0
                THEN IF tg.fallback = "ok" THEN done("sent by file_id")
                     ELSE done("notice: fallback failed")
                ELSE done("notice: could not be retrieved from source")
      ELSE done("notice: unsupported")

\* sendBatchItemToChat: what the viewer's chat gets for item f; `thrown` is
\* whether the call throws into the loop of the /start handler
sendBatchItemToChat(f, tg) ==
  LET sent == attemptSendWithRetry(tg)
      done(effect) == [thrown |-> FALSE, effect |-> effect]
  IN  IF hasText(f) \/ (f.type \in {"document", "photo", "video", "audio"} /\ f.file_id # 0)
      THEN IF sent THEN done("sent") ELSE done("send file fail")
      ELSE IF hasSource(f)
      THEN IF sent THEN done("copied")
           ELSE IF f.file_id # 0
                THEN IF tg.fallback = "ok" THEN done("sent by file_id")
                     ELSE done("notice: fallback failed")
                ELSE done("notice: could not be retrieved from source")
      ELSE done("notice: unsupported")

\* the reply of /start <token> when it ends before its loop, "" when the
\* loop has an item to send
startReply(d, token) ==
  LET filename == Lookup(readIndex(d).tokens, token)
      batch == readBatchFile(d, filename)
  IN  IF filename = Undefined THEN TokenNotFound
      ELSE IF batch = NoBatch THEN BatchMissing
      ELSE IF batch.files = <<>> THEN RatePrompt
      ELSE ""

\* /start <token>, up to the first await of its loop (one /start at a time
\* is followed per conversation)
StartToken(c, token) ==
  /\ c \notin DOMAIN redeeming
  /\ LET batch == readBatchFile(disk, Lookup(readIndex(disk).tokens, token))
     IN  redeeming' =
           IF startReply(disk, token) = ""
           THEN MapSet(redeeming, c,
                       [token |-> batch.token, files |-> batch.files, i |-> 0,
                        pc |-> "send", log |-> <<>>])
           ELSE redeeming
  /\ Handled(c, <<"/start", token>>, startReply(disk, token))
  /\ UNCHANGED <<watcher, replacing, showing, raced, disk, wr, lastRead, pendingBatches, pendingAddTo, naming, browseSessions,
                 opening, drawn, nextItem, lim, renames, acked, overlap, callbackTokenMap,
                 clock, sweepAt, surface, gen, buttons>>

\* `await sendBatchItemToChat(chatId, batch, batch.files[i])` settles
SendSettled(c, tg) ==
  /\ c \in DOMAIN redeeming
  /\ redeeming[c].pc = "send"
  /\ LET k == redeeming[c]
         f == k.files[k.i + 1]
         r == sendBatchItemToChat(f, tg)
     IN  IF r.thrown
         THEN /\ redeeming' = MapDel(redeeming, c)
              /\ Handled(c, <<"/start", k.token>>, "on message error")
         ELSE /\ redeeming' = MapSet(redeeming, c,
                    [k EXCEPT !.i = k.i + 1, !.pc = "sleep",
                              !.log = Append(k.log, [id |-> f.id, effect |-> r.effect])])
              /\ Handled(c, <<"item", f.id>>, r.effect)
  /\ UNCHANGED <<watcher, replacing, showing, raced, disk, wr, lastRead, pendingBatches, pendingAddTo, naming, browseSessions,
                 opening, drawn, nextItem, lim, renames, acked, overlap, callbackTokenMap,
                 clock, sweepAt, surface, gen, buttons>>

\* `await sleep(120)` settles: the next item is sent, or the loop is over and
\* the rating prompt is sent
SleepDone(c) ==
  /\ c \in DOMAIN redeeming
  /\ redeeming[c].pc = "sleep"
  /\ LET k == redeeming[c]
     IN  IF k.i < Len(k.files)
         THEN /\ redeeming' = MapSet(redeeming, c, [k EXCEPT !.pc = "send"])
              /\ last' = last
         ELSE /\ redeeming' = MapDel(redeeming, c)
              /\ Handled(c, <<"/start", k.token>>, RatePrompt)
  /\ UNCHANGED <<watcher, replacing, showing, raced, disk, wr, lastRead, pendingBatches, pendingAddTo, naming, browseSessions,
                 opening, drawn, nextItem, lim, renames, acked, overlap, callbackTokenMap,
                 clock, sweepAt, surface, gen, buttons>>

\* RedeemSpec: viewers redeem tokens of a stored batch of photos, forwarded
\* messages and texts, tokens that are not in the Index, and the batch is
\* deleted while it is being delivered
RedeemItems == 3

RedeemBatch ==
  [NewBatch(BatchA, Token(1), AuthorChat) EXCEPT
     !.files = [j \in 1..RedeemItems |->
                  FileMeta(IF j % 3 = 1 THEN Photo(Foo)
                           ELSE IF j % 3 = 2 THEN Forwarded ELSE TextItem, j)]]

RedeemDisk ==
  Put(Put(Put(EmptyMap, INDEX_FILE, IndexRecord(Idx2)),
          filenameToPath(BatchA), RedeemBatch),
      filenameToPath(Foo), NewBatch(Foo, Token(2), AuthorChat))

LimRedeem ==
  [NoLim EXCEPT !.observe = TRUE, !.maxTokens = 2,
     !.strangers = {Token(3), <<"c", "o", "n", "s", "t", "r", "u", "c", "t", "o", "r">>}]

RedeemInit == InitWith(RedeemDisk, LimRedeem)

RedeemNext ==
  \/ \E token \in AllTokens \cup lim.strangers : StartToken(ViewerChat, token)
  \/ \E tg \in TelegramOutcomes : SendSettled(ViewerChat, tg)
  \/ SleepDone(ViewerChat)
  \/ \E token \in AllTokens \cup lim.strangers : StartToken(AuthorChat, token)
  \/ \E tg \in TelegramOutcomes : SendSettled(AuthorChat, tg)
  \/ SleepDone(AuthorChat)
  \/ \E token \in KnownTokens : DeleteFile(token)

\* every awaited call settles: a Telegram request resolves or rejects, and
\* the timer of sleep fires
RedeemSpec ==
  /\ RedeemInit /\ [][RedeemNext]_vars
  /\ WF_vars(\E tg \in TelegramOutcomes : SendSettled(ViewerChat, tg))
  /\ WF_vars(SleepDone(ViewerChat))
  /\ WF_vars(\E tg \in TelegramOutcomes : SendSettled(AuthorChat, tg))
  /\ WF_vars(SleepDone(AuthorChat))

\* ---------------------------------------------- index updates that overlap
\* IndexSpec: two conversations of the admin author batches, and batches are
\* deleted and moved in the order, while handlers are suspended in their name
\* detection; handlers interleave at every await
IndexMaxTokens == 2
IndexMaxItems == 2

LimIndex ==
  [NoLim EXCEPT !.observe = TRUE, !.maxTokens = IndexMaxTokens,
     !.maxItems = IndexMaxItems, !.inputs = {Photo(Foo)}]

IndexInit == InitWith(EmptyMap, LimIndex)

IndexNext ==
  \/ \E inp \in lim.inputs : AppendItem(AuthorChat, inp)
  \/ \E inp \in lim.inputs : AppendItem(AppendChat, inp)
  \/ \E k \in naming : \E io \in IoOutcomes : AutoNameResume(k, io)
  \/ \E token \in KnownTokens : DeleteFile(token)
  \/ \E token \in KnownTokens : IndexUp(token)
  \/ \E token \in KnownTokens : IndexDown(token)

IndexSpec == IndexInit /\ [][IndexNext]_vars

\* ------------------------------------------------ the rename, step by step
\* renameBatchFileOnDisk runs without an await, so no other handler sees its
\* intermediate states; a process that stops inside it leaves them on disk.

\* lines 108-112: the record under its new name
renameNewRecord(d, oldFilename, final, displayNameFull) ==
  LET batch == readBatchFile(d, oldFilename)
  IN  atomicWriteFileSync(d, filenameToPath(final),
        [batch EXCEPT !.filename = final,
                      !.display_name = IF displayNameFull # <<>>
                                       THEN Slice(Trim(displayNameFull), DisplayMax)
                                       ELSE final])

\* line 113: the record under its old name is removed
renameUnlinkOld(d, oldFilename) ==
  IF Exists(d, filenameToPath(oldFilename))
  THEN Unlink(d, filenameToPath(oldFilename)) ELSE d

\* lines 114-121: the index entry and the order entry
renameIndex(d, oldFilename, final, token) ==
  LET idx == readIndex(d)
      tokens == IF token # <<>> THEN MapSet(idx.tokens, token, final) ELSE idx.tokens
      pos == IndexOf(idx.order, oldFilename)
      order == IF pos # 0 THEN [idx.order EXCEPT ![pos] = final]
               ELSE Append(idx.order, final)
  IN  writeIndex(d, [tokens |-> tokens, order |-> order])

\* the handler of k resumes with a detected name and the batch in place: the
\* new filename is chosen and the record written under it
RenameWriteNew(k, io) ==
  /\ Running
  /\ k \in naming
  /\ io = NoIo \/ ReadsFile(k.file)
  /\ LET detected == detectNameFromFile(k.file, io)
         r == finishNaming(disk, k, detected)
         display == IF detected.rawLine # <<>> THEN detected.rawLine
                    ELSE IF detected.sanitized # <<>> THEN detected.sanitized
                    ELSE BatchBase
     IN  /\ r.name # <<>>
         /\ disk' = renameNewRecord(disk, k.filename, r.name, display)
         /\ wr' = [pc |-> "renaming", filepath |-> filenameToPath(r.name),
                   data |-> readBatchFile(disk', r.name), before |-> Raised,
                   k |-> k, final |-> r.name, old |-> TRUE]
  /\ UNCHANGED <<watcher, replacing, showing, raced, lastRead, memory>>

RenameUnlinkOld ==
  /\ wr.pc = "renaming"
  /\ wr.old
  /\ disk' = renameUnlinkOld(disk, wr.k.filename)
  /\ wr' = [wr EXCEPT !.old = FALSE]
  /\ UNCHANGED <<watcher, replacing, showing, raced, lastRead, memory>>

\* the index is written and addFileToPending returns
RenameWriteIndex ==
  /\ wr.pc = "renaming"
  /\ ~wr.old
  /\ LET k == wr.k
     IN  /\ disk' = renameIndex(disk, k.filename, wr.final, k.token)
         /\ renames' = Bump(renames, k.token)
         /\ pendingBatches' =
              IF Attached(k)
              THEN [pendingBatches EXCEPT ![k.chat].filename = wr.final,
                                          ![k.chat].autoNamed = FALSE]
              ELSE pendingBatches
         /\ naming' = naming \ {k}
         /\ acked' = acked \cup {k.file.id}
         /\ Handled(k.chat, <<"item", k.file.id>>, "Added item to batch")
  /\ wr' = NoWrite
  /\ UNCHANGED <<watcher, replacing, showing, raced, lastRead, pendingAddTo, browseSessions, opening, drawn, nextItem,
                 lim, surface, rest, overlap>>

\* RenameSpec: the admin sends items with no session open; the rename that
\* follows the name detection is taken step by step, and the process can
\* be restarted at any point
RenameMaxTokens == 2
RenameMaxItems == 2

LimRename ==
  [NoLim EXCEPT !.observe = TRUE, !.maxTokens = RenameMaxTokens,
     !.maxItems = RenameMaxItems, !.inputs = {Photo(Foo), Photo(Star)}]

RenameInit == InitWith(EmptyMap, LimRename)

RenameNext ==
  \/ Running /\ \E inp \in lim.inputs : AppendItem(AuthorChat, inp)
  \/ Running /\ DoneAdd(AuthorChat)
  \/ \E k \in naming : \E io \in IoOutcomes : RenameWriteNew(k, io)
  \/ RenameUnlinkOld
  \/ RenameWriteIndex
  \/ Restart

RenameSpec == RenameInit /\ [][RenameNext]_vars

\* ------------------------------------------- appending to an existing batch

AddToMaxTokens == 2
AddToMaxItems == 2

\* a filename reply of blanks only trims to the empty name
Blank == <<" ">>

LimAddTo ==
  [NoLim EXCEPT !.maxTokens = AddToMaxTokens,
     !.maxItems = AddToMaxItems, !.names = {Blank}, !.inputs = {Photo(Foo)}]

AddToInit == InitWith(EmptyMap, LimAddTo)

AddToNext ==
  \/ SendFileCmd(AuthorChat)
  \/ \E text \in lim.names : FilenameText(AuthorChat, text)
  \/ \E inp \in lim.inputs : AppendItem(AuthorChat, inp)
  \/ \E k \in naming : \E io \in IoOutcomes : AutoNameResume(k, io)
  \/ \E token \in AllTokens : AddToCmd(AppendChat, token)
  \/ \E inp \in lim.inputs : AppendExisting(AppendChat, inp)
  \/ \E token \in KnownTokens : DeleteFile(token)

AddToSpec == AddToInit /\ [][AddToNext]_vars

\* ------------------------------------------------------- opening a browse

\* OpenSpec: one viewer opens browse sessions over two stored batches, two
\* opens may be under way at once, and batches are deleted meanwhile
OpenMaxOpening == 2

LimOpen ==
  [NoLim EXCEPT !.observe = TRUE, !.maxTokens = 2, !.maxOpening = OpenMaxOpening,
     !.maxNav = SurfaceMaxNav, !.maxMessages = MaxMessages]

OpenInit == InitWith(SurfaceDisk, LimOpen)

OpenNext ==
  \/ BrowseOpenStart(ViewerChat)
  \/ \E k \in opening : \E sent \in BOOLEAN : BrowseOpenFinish(k, sent)
  \/ BrowseLeft(ViewerChat)
  \/ BrowseRight(ViewerChat)
  \/ \E token \in KnownTokens : DeleteFile(token)
  \/ \E token \in KnownTokens : IndexUp(token)

OpenSpec == OpenInit /\ [][OpenNext]_vars

\* ------------------------------------------------------ viewing a batch

\* ViewSpec: one viewer opens a session over two stored batches, steps to the
\* other batch, looks at files, list and single items, closes the files view
\* and steps on; a batch may be deleted meanwhile
ViewMaxNav == 2
ViewMaxMessages == 2

LimView ==
  [NoLim EXCEPT !.observe = TRUE, !.maxTokens = 2, !.maxOpening = 1,
     !.maxNav = ViewMaxNav, !.maxMessages = ViewMaxMessages]

ViewInit == InitWith(SurfaceDisk, LimView)

ViewNext ==
  \/ BrowseOpenStart(ViewerChat)
  \/ \E k \in opening : \E sent \in BOOLEAN : BrowseOpenFinish(k, sent)
  \/ BrowseLeft(ViewerChat)
  \/ BrowseRight(ViewerChat)
  \/ BrowseView(ViewerChat)
  \/ BrowseList(ViewerChat)
  \/ \E token \in AllTokens : \E fileIdx \in 0..1 : BrowseFile(ViewerChat, token, fileIdx)
  \/ BrowseBackToPreview(ViewerChat)
  \/ BrowseFilesClose(ViewerChat)
  \/ \E token \in KnownTokens : DeleteFile(token)

ViewSpec == ViewInit /\ [][ViewNext]_vars

\* ---------------------------------------------------------------- rating

\* the scores of the rating keyboard: rate_<token>_<s> for s = 1..10
RatingKeyboard == 1..10

\* variant: a user's first rating of a batch stays
rateKeepingFirst(d, user, token, score, t) ==
  LET filename == Lookup(readIndex(d).tokens, token)
      batch == IF filename = Undefined THEN NoBatch ELSE readBatchFile(d, filename)
  IN  IF batch = NoBatch THEN d
      ELSE writeBatchFile(d, filename,
             [batch EXCEPT !.ratings = IF user \in DOMAIN @ THEN @
                                       ELSE MapSet(@, user, [score |-> score, ts |-> t])])

\* rate_<token>_<score> pressed by user at time t: the disk after it
rate(d, user, token, score, t) ==
  LET filename == Lookup(readIndex(d).tokens, token)
      batch == IF filename = Undefined THEN NoBatch ELSE readBatchFile(d, filename)
  IN  IF batch = NoBatch THEN d
      ELSE writeBatchFile(d, filename,
             [batch EXCEPT !.ratings = MapSet(@, user, [score |-> score, ts |-> t])])

Rate(user, token, score) ==
  /\ disk' = rate(disk, user, token, score, clock)
  /\ Handled(user, <<"rate", token, score>>,
             IF rate(disk, user, token, score, clock) = disk /\ token \notin KnownTokens
             THEN "Batch not found" ELSE "Thanks")
  /\ UNCHANGED <<watcher, replacing, showing, raced, wr, lastRead, pendingBatches, pendingAddTo, naming, browseSessions,
                 opening, drawn, nextItem, lim, surface, rest, renames, acked, overlap>>

\* RateSpec: two users rate two stored batches with the scores of the
\* keyboard, also by tokens the Index does not hold; batches are deleted
Raters == {ViewerChat, AuthorChat}

LimRate ==
  [NoLim EXCEPT !.maxTokens = 2,
     !.strangers = {Token(3), <<"c", "o", "n", "s", "t", "r", "u", "c", "t", "o", "r">>}]

RateInit == InitWith(SurfaceDisk, LimRate)

RateNext ==
  \/ \E user \in Raters : \E token \in AllTokens \cup lim.strangers :
       \E score \in RatingKeyboard : Rate(user, token, score)
  \/ \E token \in KnownTokens : DeleteFile(token)

RateSpec == RateInit /\ [][RateNext]_vars

\* ------------------------------------------------------- editing captions

\* EditSpec: one admin conversation, one handler at a time: batches are
\* opened, filled and finalized, items are appended to stored batches, and
\* captions are edited through /edit_caption and the Edit buttons
EditMaxTokens == 2
EditMaxItems == 2

LimEdit ==
  [NoLim EXCEPT !.seq = TRUE, !.maxTokens = EditMaxTokens, !.maxItems = EditMaxItems,
     !.names = {<<"A">>}, !.inputs = {Photo(Foo)}]

EditInit == InitWith(EmptyMap, LimEdit)

EditNext ==
  \/ SendFileCmd(AuthorChat)
  \/ \E text \in lim.names : FilenameText(AuthorChat, text)
  \/ \E inp \in lim.inputs : AppendItem(AuthorChat, inp)
  \/ DoneAdd(AuthorChat)
  \/ \E k \in naming : \E io \in IoOutcomes : AutoNameResume(k, io)
  \/ \E token \in KnownTokens : AddToCmd(AuthorChat, token)
  \/ \E inp \in lim.inputs : AppendExisting(AuthorChat, inp)
  \/ DoneAddTo(AuthorChat)
  \/ \E token \in KnownTokens : EditCaptionCmd(AuthorChat, token)
  \/ \E token \in KnownTokens : FileEdit(AuthorChat, token, 0)
  \/ \E n \in 1..2 : EditIndexText(AuthorChat, n)
  \/ EditCaptionText(AuthorChat, Star)

EditSpec == EditInit /\ [][EditNext]_vars

\* ------------------------------------------------------- admin-only guards

\* the user id of the admin; a private conversation has the id of its user,
\* so AuthorChat is the admin's private conversation, AppendChat is a group
\* in which the admin and other users write
ADMIN_ID == AuthorChat

\* the answer of `if (ADMIN_ID && fromId !== ADMIN_ID) return safeSendMessage(...)`
\* of each admin command (/doneadd tests fromId !== ADMIN_ID alone)
Refusal(cmd) ==
  CASE cmd = "/sendfile" -> "Only admin may use /sendfile."
    [] cmd = "/addto" -> "Only admin may use /addto."
    [] cmd = "/doneaddto" -> "Only admin may use /doneaddto."
    [] cmd = "/doneadd" -> "Only admin may finish a batch."
    [] cmd = "/edit_caption" -> "Only admin may use /edit_caption."
    [] cmd = "/deletefile" -> "Only admin may delete."

\* a handler that answers and returns
Refused(c, update, reply) ==
  /\ Handled(c, update, reply)
  /\ UNCHANGED <<watcher, replacing, showing, raced, disk, wr, lastRead, pendingBatches, pendingAddTo, naming,
                 browseSessions, opening, drawn, nextItem, lim, surface, rest, renames,
                 acked, overlap>>

\* what a command does once its guard has let it through
Command(c, cmd, token) ==
  CASE cmd = "/sendfile" -> SendFileCmd(c)
    [] cmd = "/addto" -> AddToCmd(c, token)
    [] cmd = "/doneaddto" -> DoneAddTo(c)
    [] cmd = "/doneadd" -> DoneAdd(c)
    [] cmd = "/edit_caption" -> EditCaptionCmd(c, token)
    [] cmd = "/deletefile" -> DeleteFile(token)

\* variant: /doneadd is open to every user
CommandFromUnlessFinishing(fromId, c, cmd, token) ==
  IF fromId # ADMIN_ID /\ cmd # "/doneadd"
  THEN Refused(c, <<cmd>>, Refusal(cmd))
  ELSE Command(c, cmd, token)

\* an admin command sent by fromId in conversation c
CommandFrom(fromId, c, cmd, token) ==
  IF fromId # ADMIN_ID
  THEN Refused(c, <<cmd>>, Refusal(cmd))
  ELSE Command(c, cmd, token)

\* a plain text sent by fromId: the filename reply (576) and the replies of
\* the caption flow (642, 654) are taken from the admin only; from another
\* user the handler runs to its end without an answer
TextFrom(fromId, c, text) ==
  IF fromId # ADMIN_ID
  THEN Refused(c, <<"text", text>>, "")
  ELSE \/ FilenameText(c, text)
       \/ EditCaptionText(c, text)

\* an item sent by fromId: `if (fromId === ADMIN_ID && isMedia)`
ItemFrom(fromId, c, inp) ==
  IF fromId # ADMIN_ID
  THEN Refused(c, <<"item">>, "")
  ELSE \/ AppendExisting(c, inp)
       \/ AppendItem(c, inp)

\* index_up_<token> / index_down_<token> pressed by fromId
IndexMoveFrom(fromId, c, action, token) ==
  IF fromId # ADMIN_ID
  THEN Refused(c, <<"index_" \o action, token>>, "Admin only")
  ELSE IF action = "up" THEN IndexUp(token) ELSE IndexDown(token)

\* file_edit_<token>_<i> pressed by fromId
FileEditFrom(fromId, c, token, idxNum) ==
  IF fromId # ADMIN_ID
  THEN Refused(c, <<"file_edit", token, idxNum>>, "Admin only")
  ELSE FileEdit(c, token, idxNum)

\* GuardSpec: the admin and another user write in one group conversation
\* and press the buttons under its messages: every admin command, texts,
\* items, ratings, index and file moves and caption edits come from either
Users == {ADMIN_ID, ViewerChat}

GuardMaxTokens == 2
GuardMaxItems == 2

Commands == {"/sendfile", "/addto", "/doneaddto", "/doneadd", "/edit_caption", "/deletefile"}

LimGuard ==
  [NoLim EXCEPT !.seq = TRUE, !.maxTokens = GuardMaxTokens, !.maxItems = GuardMaxItems,
     !.names = {<<"A">>}, !.inputs = {Photo(Foo)}]

GuardInit == InitWith(EmptyMap, LimGuard)

\* what user fromId can send and press in the group
Sends(fromId) ==
  \/ \E cmd \in Commands : \E token \in KnownTokens \cup {Token(1)} :
       CommandFrom(fromId, AppendChat, cmd, token)
  \/ \E text \in lim.names : TextFrom(fromId, AppendChat, text)
  \/ \E inp \in lim.inputs : ItemFrom(fromId, AppendChat, inp)
  \/ \E token \in KnownTokens : Rate(fromId, token, 10)
  \/ \E token \in KnownTokens : IndexMoveFrom(fromId, AppendChat, "up", token)
  \/ \E token \in KnownTokens : FileMove(fromId, "up", token, 1)
  \/ \E token \in KnownTokens : FileEditFrom(fromId, AppendChat, token, 0)

\* the admin opens and fills batches, starts append sessions and caption
\* edits, reorders the Index and rates; the other user tries everything
GuardNext ==
  \/ \E cmd \in {"/sendfile", "/addto", "/edit_caption"} :
       \E token \in KnownTokens : CommandFrom(ADMIN_ID, AppendChat, cmd, token)
  \/ \E text \in lim.names : TextFrom(ADMIN_ID, AppendChat, text)
  \/ \E inp \in lim.inputs : ItemFrom(ADMIN_ID, AppendChat, inp)
  \/ \E token \in KnownTokens : Rate(ADMIN_ID, token, 1)
  \/ \E token \in KnownTokens : IndexMoveFrom(ADMIN_ID, AppendChat, "up", token)
  \/ \E k \in naming : \E io \in IoOutcomes : AutoNameResume(k, io)
  \/ Sends(ViewerChat)

GuardSpec == GuardInit /\ [][GuardNext]_vars

\* ------------------------------------------------------ overlapping steps

\* RaceSpec: a viewer opens a browse session over two stored batches (a text
\* first, a photo first) and presses browse_left and browse_right, also while
\* an earlier press is suspended in replaceBrowseMessage; every Telegram call
\* succeeds unless its message is gone
RaceMaxNav == 3
RaceMaxReplacing == 2
RaceMaxMessages == 4

LimRace ==
  [NoLim EXCEPT !.observe = TRUE, !.maxTokens = 2, !.maxOpening = 1, !.maxNav = RaceMaxNav,
     !.maxReplacing = RaceMaxReplacing, !.maxMessages = RaceMaxMessages]

RaceInit == InitWith(SurfaceDisk, LimRace)

RaceNext ==
  \/ ViewerChat \notin DOMAIN browseSessions /\ BrowseOpenStart(ViewerChat)
  \/ \E k \in opening : BrowseOpenFinish(k, TRUE)
  \/ BrowseStepStart(ViewerChat, "browse_left")
  \/ BrowseStepStart(ViewerChat, "browse_right")
  \/ \E k \in replacing : BrowseStepFinish(k, Succeeds)

RaceSpec == RaceInit /\ [][RaceNext]_vars

\* ------------------------------------------------- both sessions at once

\* ParallelSpec: one admin conversation, one handler at a time: batches are
\* opened by name or by a first item and filled, /addto starts append
\* sessions beside an authoring session, items and texts arrive, append
\* sessions are finalized and batches are deleted
ParallelMaxTokens == 2
ParallelMaxItems == 2

LimParallel ==
  [NoLim EXCEPT !.seq = TRUE, !.maxTokens = ParallelMaxTokens,
     !.maxItems = ParallelMaxItems, !.names = {<<"A">>}, !.inputs = {Photo(Foo), TextItem}]

ParallelInit == InitWith(EmptyMap, LimParallel)

ParallelNext ==
  \/ SendFileCmd(AuthorChat)
  \/ \E text \in lim.names : FilenameText(AuthorChat, text)
  \/ \E inp \in lim.inputs : AppendItem(AuthorChat, inp)
  \/ \E k \in naming : \E io \in IoOutcomes : AutoNameResume(k, io)
  \/ \E token \in KnownTokens : AddToCmd(AuthorChat, token)
  \/ \E inp \in lim.inputs : AppendExisting(AuthorChat, inp)
  \/ DoneAddTo(AuthorChat)
  \/ \E token \in KnownTokens : DeleteFile(token)

ParallelSpec == ParallelInit /\ [][ParallelNext]_vars

\* --------------------------------------------- browsing while authoring

\* WindowSpec: the admin opens batches by name, one handler at a time, adds
\* items, finalizes, moves batches up in the Index and deletes them, while a
\* viewer presses browse_open
WindowMaxTokens == 2
WindowMaxItems == 1
WindowMaxOpening == 1

LimWindow ==
  [NoLim EXCEPT !.seq = TRUE, !.observe = TRUE, !.maxTokens = WindowMaxTokens,
     !.maxItems = WindowMaxItems, !.maxOpening = WindowMaxOpening,
     !.maxMessages = WindowMaxItems, !.names = {<<"A">>},
     !.inputs = {Photo(Foo)}]

WindowInit == InitWith(EmptyMap, LimWindow)

WindowNext ==
  \/ SendFileCmd(AuthorChat)
  \/ \E text \in lim.names : FilenameText(AuthorChat, text)
  \/ \E inp \in lim.inputs : AppendItem(AuthorChat, inp)
  \/ \E k \in naming : \E io \in IoOutcomes : AutoNameResume(k, io)
  \/ \E token \in KnownTokens : IndexUp(token)
  \/ \E token \in KnownTokens : DeleteFile(token)
  \/ BrowseOpenEmpty(ViewerChat)
  \/ BrowseOpenStart(ViewerChat)
  \/ \E k \in opening : \E sent \in BOOLEAN : BrowseOpenFinish(k, sent)

WindowSpec == WindowInit /\ [][WindowNext]_vars

\* ---------------------------------------------- the index watcher (bot2.js)

\* const DEBOUNCE_MS = 600
DEBOUNCE_MS == 600

\* the state of the bot process
bot == <<disk, wr, lastRead, pendingBatches, pendingAddTo, naming, browseSessions, opening,
         drawn, nextItem, lim, renames, acked, overlap, last, surface, rest, raced,
         replacing, showing>>

\* A file that ends before the "tokens" block of the serialization of data
\* is closed
Cut(data) == [Torn(data) EXCEPT !.tokens = EmptyMap, !.order = <<>>]

\* loadTokensFromIndex: the values of tokens, trimmed, when require() gives
\* the module; else what the regular expressions find in the text of the
\* file: the pairs of the "tokens" block when the text holds the whole block,
\* and nothing otherwise
loadTokensFromIndex(d) ==
  LET loaded == Load(d, INDEX_FILE)
      trimmed(tokens) == [k \in DOMAIN tokens |-> Trim(tokens[k])]
  IN  IF loaded.kind = "index" THEN trimmed(loaded.tokens)
      ELSE IF Exists(d, INDEX_FILE) /\ d[INDEX_FILE].kind = "index"
      THEN trimmed(d[INDEX_FILE].tokens)
      ELSE EmptyMap

\* notifier.js notifyBatch: the messages sent to NOTIFY_CHAT, none without a
\* name
notifyBatch(batchName, action) ==
  IF batchName = <<>> THEN <<>>
  ELSE <<[name |-> batchName, action |-> action]>>

\* the loop of scanIndexNow over the keys of tokens: the notifyBatch calls made
RECURSIVE scanKeys(_, _, _)
scanKeys(keys, tokens, known) ==
  IF keys = {} THEN <<>>
  ELSE LET key == CHOOSE k \in keys : TRUE
           name == IF tokens[key] = <<>> THEN key ELSE tokens[key]
           sent == IF key \notin DOMAIN known THEN notifyBatch(name, "new")
                   ELSE IF known[key] # name THEN notifyBatch(name, "updated")
                   ELSE <<>>
       IN  sent \o scanKeys(keys \ {key}, tokens, known)

\* scanIndexNow: the snapshot it leaves and the notifications it sends
scanIndexNow(d, known) ==
  IF ~Exists(d, INDEX_FILE) THEN [knownTokens |-> EmptyMap, notified |-> <<>>]
  ELSE LET tokens == loadTokensFromIndex(d)
       IN  [knownTokens |-> tokens,
            notified |-> scanKeys(DOMAIN tokens, tokens, known)]

\* initialLoad
initialLoad(d) ==
  IF ~Exists(d, INDEX_FILE) THEN EmptyMap ELSE loadTokensFromIndex(d)

\* startWatch: the initial load; from now on changes of index.js are reported
startWatch ==
  /\ ~watching
  /\ watching' = TRUE
  /\ knownTokens' = initialLoad(disk)
  /\ UNCHANGED <<indexTimer, notified, announced, bot>>

\* handleIndexChange: fs.watch reports a change of index.js (it may report a
\* change more than once); the timer is set anew
handleIndexChange ==
  /\ watching
  /\ indexTimer' = clock + DEBOUNCE_MS
  /\ UNCHANGED <<knownTokens, watching, notified, announced, bot>>

\* the callback of the timer: scanIndexNow. A token leaves announced when the
\* index the scan reads no longer holds it.
TimerFires ==
  /\ indexTimer # NoTimer
  /\ clock >= indexTimer
  /\ indexTimer' = NoTimer
  /\ LET scan == scanIndexNow(disk, knownTokens)
         kept == IF Loadable(disk, INDEX_FILE)
                 THEN announced \cap DOMAIN readIndex(disk).tokens ELSE announced
     IN  /\ knownTokens' = scan.knownTokens
         /\ notified' = scan.notified
         /\ announced' = kept \cup (DOMAIN scan.knownTokens \ DOMAIN knownTokens)
  /\ UNCHANGED <<watching, bot>>

\* index.js set aside and put back by the operator of the data directory,
\* by a rename or by a copy that writes the file in place
BakPath == INDEX_FILE \o <<".", "b", "a", "k">>

SetAside == Exists(disk, BakPath)

IndexSetAside ==
  /\ Loadable(disk, INDEX_FILE)
  /\ ~SetAside
  /\ disk' = Rename(disk, INDEX_FILE, BakPath)
  /\ UNCHANGED <<watcher, wr, lastRead, pendingBatches, pendingAddTo, naming, browseSessions,
                 opening, drawn, nextItem, lim, renames, acked, overlap, last, surface,
                 rest, raced, replacing, showing>>

IndexPutBack ==
  /\ SetAside
  /\ disk' = Rename(disk, BakPath, INDEX_FILE)
  /\ UNCHANGED <<watcher, wr, lastRead, pendingBatches, pendingAddTo, naming, browseSessions,
                 opening, drawn, nextItem, lim, renames, acked, overlap, last, surface,
                 rest, raced, replacing, showing>>

IndexCopyBackOpen(early) ==
  /\ SetAside
  /\ ~Exists(disk, INDEX_FILE)
  /\ disk' = Put(disk, INDEX_FILE,
                 IF early THEN Cut(disk[BakPath]) ELSE Torn(disk[BakPath]))
  /\ UNCHANGED <<watcher, wr, lastRead, pendingBatches, pendingAddTo, naming, browseSessions,
                 opening, drawn, nextItem, lim, renames, acked, overlap, last, surface,
                 rest, raced, replacing, showing>>

\* WatchSpec: the admin opens batches (by name, or by a first item whose
\* caption renames the batch) and deletes them, the watcher starts and scans,
\* time passes, and the index is set aside and put back while the bot is idle
WatchMaxTokens == 2
WatchMaxItems == 1
WatchMaxTicks == 6

\* the step of the clock of the run: half the debounce time
WatchQuantum == DEBOUNCE_MS \div 2

LimWatch ==
  [NoLim EXCEPT !.seq = TRUE, !.maxTokens = WatchMaxTokens, !.maxItems = WatchMaxItems,
     !.names = {<<"A">>}, !.inputs = {Photo(Foo)}, !.quantum = WatchQuantum,
     !.maxClock = WatchMaxTicks * WatchQuantum]

WatchInit == InitWith(EmptyMap, LimWatch)

WatchNext ==
  \/ ~SetAside /\ SendFileCmd(AuthorChat)
  \/ ~SetAside /\ \E text \in lim.names : FilenameText(AuthorChat, text)
  \/ ~SetAside /\ \E inp \in lim.inputs : AppendItem(AuthorChat, inp)
  \/ ~SetAside /\ \E k \in naming : \E io \in IoOutcomes : AutoNameResume(k, io)
  \/ ~SetAside /\ \E token \in KnownTokens : DeleteFile(token)
  \/ IndexSetAside
  \/ IndexPutBack
  \/ \E early \in BOOLEAN : IndexCopyBackOpen(early)
  \/ startWatch
  \/ handleIndexChange
  \/ TimerFires
  \/ Tick

WatchSpec == WatchInit /\ [][WatchNext]_vars

\* ------------------------------------------------------------- properties

\* the items (by number) a stored record holds
ItemsOf(record) ==
  IF record.kind = "batch" THEN { record.files[i].id : i \in DOMAIN record.files }
  ELSE {}

\* the batch record stored for a token, NoBatch when there is none
BatchOfToken(d, token) ==
  IF token \in DOMAIN readIndex(d).tokens
  THEN readBatchFile(d, readIndex(d).tokens[token])
  ELSE NoBatch

\* C1: after any sequence of non-interleaved open-batch, append-item, finalize
\* and delete-batch operations the Index is a bijection: every filename in
\* order is the value of exactly one token, every value in tokens occurs in
\* order, and order holds no filename twice.
IndexBijection ==
  naming = {} =>
    LET idx == readIndex(disk)
    IN  /\ \A i \in DOMAIN idx.order :
             Cardinality({ t \in DOMAIN idx.tokens : idx.tokens[t] = idx.order[i] }) = 1
        /\ \A t \in DOMAIN idx.tokens : Includes(idx.order, idx.tokens[t])
        /\ \A i, j \in DOMAIN idx.order : idx.order[i] = idx.order[j] => i = j

\* C2: within one authoring session the batch is renamed at most once, and a
\* rename happens only in the processing of the session's first item: no
\* second or later item enters name detection, whatever the first item
\* yielded and also when the later item arrives while the first item's
\* detection is suspended.
RenameOnlyForFirstItem ==
  /\ [](\A k \in naming : k.nth = 1)
  /\ [](\A t \in DOMAIN renames : renames[t] <= 1)
  /\ [][\A t \in DOMAIN readIndex(disk).tokens :
          (/\ t \in DOMAIN readIndex(disk').tokens
           /\ readIndex(disk').tokens[t] # readIndex(disk).tokens[t])
            => \E k \in naming : k \notin naming' /\ k.token = t /\ k.nth = 1]_vars

\* a later item was appended to the session while its first item's name
\* detection is still suspended
LaterItemDuringDetection ==
  \E k \in naming :
    /\ Attached(k)
    /\ pendingBatches[k.chat].nfiles >= 2
    /\ Cardinality(ItemsOf(readBatchFile(disk, k.filename))) >= 2

\* the raw label of an item as the naming step takes it: the first line of
\* the caption, else the stem of the file name
RawLabel(file) ==
  IF file.caption # <<>> THEN FirstLine(file.caption) ELSE Stem(file.file_name)

\* C3: when the first item's raw label sanitizes to empty, the naming attempt
\* changes neither the Batch record (filename, displayName) nor the Index
\* (the token's mapping, the order entry): the batch keeps batch_<token>; and
\* the session's auto-name flag is cleared.
EmptySlugKeepsProvisionalName ==
  [][\A k \in naming :
       (/\ k \notin naming'
        /\ Trim(RawLabel(k.file)) # <<>>
        /\ sanitizeFilenameForDisk(RawLabel(k.file)) = <<>>
        /\ ~ReadsFile(k.file))
         => /\ readBatchFile(disk', k.filename) = readBatchFile(disk, k.filename)
            /\ readIndex(disk') = readIndex(disk)
            /\ k.filename = BatchPrefix \o k.token
            /\ ~pendingBatches'[k.chat].autoNamed]_vars

\* the label the naming step derives from a caption
CaptionLine(file) == Slice(Trim(FirstLine(file.caption)), 200)

\* the slug of that label followed by '_' and the token
SlugName(k) == sanitizeFilenameForDisk(CaptionLine(k.file)) \o <<"_">> \o k.token

\* the naming step of k ends, for a caption whose label has a non-empty slug
NamedFromCaption(k) ==
  /\ k \in naming
  /\ k \notin naming'
  /\ k.file.caption # <<>>
  /\ sanitizeFilenameForDisk(CaptionLine(k.file)) # <<>>

RaceLoss ==
  { p \in overlap :
      \E path \in DOMAIN disk :
        (p[1] \in ItemsOf(disk[path])) # (p[2] \in ItemsOf(disk[path])) }

WriteIsAtomic ==
  LET now == Load(disk, wr.filepath)
  IN  /\ wr.pc \in {"opened", "written", "stopped"} => now = wr.before
      /\ wr.pc = "done" => now = wr.data
      /\ wr.pc # "idle" /\ Exists(disk, wr.filepath) /\ ~disk[wr.filepath].whole
           => wr.before = Raised

\* the process stopped inside a write: the temporary file is torn and the
\* target still holds the complete previous record
StoppedWithTornTmp ==
  /\ wr.pc = "stopped"
  /\ wr.before # Raised
  /\ wr.before # wr.data
  /\ Exists(disk, tmpPath(wr.filepath))
  /\ ~disk[tmpPath(wr.filepath)].whole

\* C7: readIndex never raises and gives the empty Index when the index file
\* is missing or does not load; readBatchFile gives null in the same
\* situations; neither read changes a file.
ReadsNeverRaise ==
  /\ [](lastRead.op = "readIndex" =>
          /\ lastRead.result # Raised
          /\ ~lastRead.loadable => lastRead.result = [tokens |-> <<>>, order |-> <<>>])
  /\ [](lastRead.op = "readBatchFile" =>
          /\ lastRead.result # Raised
          /\ ~lastRead.loadable => lastRead.result = NoBatch)
  /\ [][lastRead' # lastRead => disk' = disk]_vars

\* readIndex returned the empty Index for an index file that is there and
\* does not load
ReadOfTornIndex ==
  /\ lastRead.op = "readIndex"
  /\ ~lastRead.loadable
  /\ lastRead.result = EmptyIndex
  /\ Exists(disk, INDEX_FILE)
  /\ ~disk[INDEX_FILE].whole

\* C8: a session over a snapshot of length N starts at N-1; step_back sets the
\* position to min(N-1, position+1) and leaves N-1 unchanged; step_forward
\* sets it to max(0, position-1), so that N-1 step_forwards in a row reach 0
\* and further ones stay at 0.
StepsClampAtEnds ==
  /\ [](\A c \in DOMAIN browseSessions :
          LET s == browseSessions[c]
              N == Len(s.order)
          IN  /\ s.nav.kind \in {"open", "back"} => s.pos = N - 1
              /\ s.nav.kind = "forward" =>
                   s.pos = IF s.nav.n >= N - 1 THEN 0 ELSE N - 1 - s.nav.n)
  /\ [][LET s == browseSessions[ViewerChat]
            N == Len(s.order)
        IN  /\ BrowseLeft(ViewerChat) =>
                 browseSessions'[ViewerChat].pos
                   = IF N - 1 < s.pos + 1 THEN N - 1 ELSE s.pos + 1
            /\ BrowseRight(ViewerChat) =>
                 browseSessions'[ViewerChat].pos
                   = IF 0 > s.pos - 1 THEN 0 ELSE s.pos - 1]_vars

\* a session over two or more batches after N step_forwards in a row: the
\* position reached 0 after N-1 of them and stayed there
ForwardPastNewest ==
  \E c \in DOMAIN browseSessions :
    /\ Len(browseSessions[c].order) >= 2
    /\ browseSessions[c].nav.kind = "forward"
    /\ browseSessions[c].nav.n = Len(browseSessions[c].order)
    /\ browseSessions[c].pos = 0

\* C9: the order snapshot of a browse session changes only when a browse_open
\* of the same conversation replaces the session; changes of the index and
\* the session's own navigation leave it as it is.
SnapshotFrozen ==
  [][\A c \in DOMAIN browseSessions :
       (/\ c \in DOMAIN browseSessions'
        /\ browseSessions'[c].order # browseSessions[c].order)
         => \E k \in opening :
              /\ k.chat = c
              /\ k \notin opening'
              /\ browseSessions'[c] = [pos |-> k.pos, order |-> k.order, nav |-> Fresh]]_vars

\* a session that has navigated over a snapshot the index no longer equals
StaleSnapshotNavigated ==
  \E c \in DOMAIN browseSessions :
    /\ browseSessions[c].order # readIndex(disk).order
    /\ browseSessions[c].nav.n > 0
    /\ opening = {}

\* C10: every browse session has 0 <= position <= len(snapshot) - 1, after any
\* steps back, forward and random jumps; on a snapshot of length 1 a random
\* jump gives position 0.
PositionInRange ==
  \A c \in DOMAIN browseSessions :
    LET s == browseSessions[c]
    IN  /\ 0 <= s.pos
        /\ s.pos <= Len(s.order) - 1
        /\ (Len(s.order) = 1 /\ s.nav.kind = "random") => s.pos = 0

\* a random jump on a snapshot of one batch
RandomOnSingleton ==
  \E c \in DOMAIN browseSessions :
    /\ Len(browseSessions[c].order) = 1
    /\ browseSessions[c].nav.kind = "random"
    /\ browseSessions[c].pos = 0

\* C11: a key handed out with a Token button less than 30 minutes ago
\* resolves to the token and the label of the row it was made for, whatever
\* was put, resolved or swept since.
KeyResolvesToItsToken ==
  \A b \in buttons :
    clock - b.createdAt < KeyTtl =>
      resolve(callbackTokenMap, b.key) =
        [found |-> TRUE, token |-> b.token, display |-> b.display]

\* C12: a cache entry older than 30 minutes resolves to absent, whether or
\* not the cleanup timer has fired since it expired.
ExpiredKeyIsAbsent ==
  \A key \in DOMAIN callbackTokenMap :
    clock - callbackTokenMap[key].createdAt > KeyTtl =>
      resolve(callbackTokenMap, key) = Absent

\* C13: /addto with a token that is not in the Index is answered with
\* "Token not found.", creates no append session and leaves the Index, the
\* batches and the sessions of the conversation as they were.
UnknownTokenStartsNoAppend ==
  [][(/\ last' # last
      /\ last'.update # <<>>
      /\ last'.update[1] = "/addto"
      /\ last'.update[2] \notin DOMAIN readIndex(disk).tokens)
     => /\ last'.reply = "Token not found."
        /\ pendingAddTo' = pendingAddTo
        /\ pendingBatches' = pendingBatches
        /\ disk' = disk]_vars

\* the conversation has an authoring session with a batch
Authoring(c) == c \in DOMAIN pendingBatches /\ pendingBatches[c].started

\* the step discards the authoring session of c: /doneadd, or another batch
\* is opened in its place
Discards(c) ==
  /\ Authoring(c)
  /\ \/ c \notin DOMAIN pendingBatches'
     \/ pendingBatches'[c].token # pendingBatches[c].token

\* C14: discarding an authoring session removes only the session: the
\* finalize writes nothing, no token of the Index is mapped anew, the batch
\* built so far is resolved by its token as before, with the items the session
\* appended; an item sent when no session is left goes to no batch that was
\* there before.
DiscardKeepsBatch ==
  [][/\ Discards(AuthorChat) =>
          LET sess == pendingBatches[AuthorChat]
              before == BatchOfToken(disk, sess.token)
          IN  /\ BatchOfToken(disk', sess.token) = before
              /\ AuthorChat \notin DOMAIN pendingBatches' => disk' = disk
              /\ \A t \in KnownTokens : readIndex(disk').tokens[t] = readIndex(disk).tokens[t]
              /\ before # NoBatch =>
                   before.token = sess.token /\ Len(before.files) = sess.nfiles
     /\ (nextItem' # nextItem /\ ~Authoring(AuthorChat)) =>
          \A t \in KnownTokens : BatchOfToken(disk', t) = BatchOfToken(disk, t)]_vars

\* the attempts made so far by a suspended /start are those for its first i
\* items, one each, in list order
AttemptsInOrder(k) ==
  /\ Len(k.log) = k.i
  /\ k.i <= Len(k.files)
  /\ \A j \in 1..k.i : k.log[j].id = k.files[j].id

\* item j of a suspended /start was attempted and not delivered
Failed(k, j) == j \in DOMAIN k.log /\ k.log[j].effect \notin {"sent", "copied", "sent by file_id"}

\* C17: redeeming a token attempts the delivery of every item of the batch
\* in list order: the handler starts from the stored list, each settled
\* delivery (whatever its outcome) is followed by the attempt for the next
\* item, the handler ends only by sending the rating prompt after the attempt
\* for the last item, and it does end that way.
RedeemAttemptsEveryItem ==
  /\ [][\A c \in {ViewerChat, AuthorChat} :
          /\ (c \notin DOMAIN redeeming /\ c \in DOMAIN redeeming') =>
               /\ redeeming'[c].files = BatchOfToken(disk, last'.update[2]).files
               /\ redeeming'[c].i = 0
               /\ redeeming'[c].pc = "send"
          /\ c \in DOMAIN redeeming =>
               LET k == redeeming[c]
               IN  /\ AttemptsInOrder(k)
                   /\ c \notin DOMAIN redeeming' =>
                        /\ k.pc = "sleep"
                        /\ k.i = Len(k.files)
                        /\ last'.chat = c
                        /\ last'.reply = RatePrompt
                   /\ (c \in DOMAIN redeeming' /\ redeeming'[c] # k) =>
                        \/ /\ k.pc = "send"
                           /\ redeeming'[c] =
                                [k EXCEPT !.i = k.i + 1, !.pc = "sleep",
                                   !.log = Append(k.log, [id |-> k.files[k.i + 1].id,
                                                          effect |-> last'.reply])]
                        \/ /\ k.pc = "sleep"
                           /\ k.i < Len(k.files)
                           /\ redeeming'[c] = [k EXCEPT !.pc = "send"]]_vars
  /\ \A c \in {ViewerChat, AuthorChat} :
       (c \in DOMAIN redeeming) ~> (last.chat = c /\ last.reply = RatePrompt)

\* a forwarded item could not be copied, and the item after it was attempted
LaterItemAfterFailedCopy ==
  \E c \in DOMAIN redeeming :
    \E j \in DOMAIN redeeming[c].log :
      /\ redeeming[c].files[j].type = "forward"
      /\ Failed(redeeming[c], j)
      /\ j < Len(redeeming[c].log)

\* C15: a step that deletes the batch of a token t of the Index removes t
\* from tokens, removes its filename from order and removes the Batch record;
\* every other token keeps its filename, the other order entries keep their
\* relative order, the Batch of every other token is unchanged, and /start t
\* afterwards answers that the token is not found.
DeleteRemovesOnlyItsBatch ==
  [][\A t \in KnownTokens :
       t \notin DOMAIN readIndex(disk').tokens =>
         LET idx == readIndex(disk)
             after == readIndex(disk')
             filename == idx.tokens[t]
         IN  /\ DOMAIN after.tokens = DOMAIN idx.tokens \ {t}
             /\ \A u \in DOMAIN after.tokens : after.tokens[u] = idx.tokens[u]
             /\ after.order = SelectSeq(idx.order, LAMBDA f : f # filename)
             /\ readBatchFile(disk', filename) = NoBatch
             /\ \A u \in DOMAIN after.tokens : BatchOfToken(disk', u) = BatchOfToken(disk, u)
             /\ \A i \in DOMAIN after.order :
                  readBatchFile(disk', after.order[i]) = readBatchFile(disk, after.order[i])
             /\ startReply(disk', t) = TokenNotFound]_vars

\* the filenames of the Index other than the one of token t
OtherFilenames(idx, t) ==
  ({ idx.order[i] : i \in DOMAIN idx.order } \cup { idx.tokens[u] : u \in DOMAIN idx.tokens })
    \ {idx.tokens[t]}

\* the multiset of the elements of a sequence
BagOf(seq) ==
  [x \in { seq[i] : i \in DOMAIN seq } |-> Cardinality({ i \in DOMAIN seq : seq[i] = x })]

Alphabet36 ==
  <<"A", "B", "C", "D", "E", "F", "G", "H", "I", "J", "K", "L", "M", "N", "O", "P", "Q", "R",
    "S", "T", "U", "V", "W", "X", "Y", "Z", "0", "1", "2", "3", "4", "5", "6", "7", "8", "9">>

\* C20: a token made by generateToken has exactly 12 characters, and its
\* i-th character is the one at index b mod 36 (counted from 0) of
\* A..Z0..9, where b is the i-th random byte: a member of that alphabet.
TokenIsTwelveOfAlphabet ==
  gen # NoToken =>
    /\ Len(gen.token) = 12
    /\ \A i \in 1..12 :
         /\ gen.rnd[i] \in 0..255
         /\ gen.token[i] = Alphabet36[(gen.rnd[i] % 36) + 1]
         /\ gen.token[i] \in { Alphabet36[j] : j \in 1..36 }

\* a token was made from a byte above 251, where b mod 36 has wrapped seven
\* times (255 gives index 3, D), and from a byte that gives the last digit
TokenFromHighByte ==
  /\ gen # NoToken
  /\ \E i \in 1..12 : gen.rnd[i] = 255 /\ gen.token[i] = "D"
  /\ \E i \in 1..12 : gen.rnd[i] = 251 /\ gen.token[i] = "9"

\* C18: a conversation with a browse session has at most one browse content
\* message in the chat, and the session's messageId is that message.
OneBrowseMessage ==
  \A c \in DOMAIN browseSessions :
    LET s == SurfaceOf(c)
    IN  /\ Cardinality(DOMAIN s.live) <= 1
        /\ DOMAIN s.live \subseteq {s.messageId}

\* C19: a restart empties the authoring sessions, the append sessions, the
\* browse sessions and the token-lookup cache (and drops the suspended
\* handlers), leaves the Index and every Batch record as stored, and every
\* token resolves to the same batch after it as before it.
RestartLosesOnlyMemory ==
  [][(last' # last /\ last'.update = <<"restart">>) =>
       /\ pendingBatches' = EmptyMap
       /\ pendingAddTo' = EmptyMap
       /\ browseSessions' = EmptyMap
       /\ callbackTokenMap' = EmptyMap
       /\ naming' = {} /\ opening' = {}
       /\ readIndex(disk') = readIndex(disk)
       /\ \A path \in DOMAIN disk \cup DOMAIN disk' :
            Load(disk', path) = Load(disk, path)
       /\ \A t \in KnownTokens : BatchOfToken(disk', t) = BatchOfToken(disk, t)]_vars

\* a restart has dropped sessions while batches were stored
RestartedWithSessions ==
  /\ last.update = <<"restart">>
  /\ last.reply = "sessions"
  /\ \E t \in KnownTokens : BatchOfToken(disk, t) # NoBatch

\* the index idx2 is idx with token t mapped to filename f, f standing in
\* order where the filename `was` stood, or at the end when it did not occur
Mapped(idx, idx2, t, f, was) ==
  /\ idx2.tokens = MapSet(idx.tokens, t, f)
  /\ idx2.order = IF Includes(idx.order, f) /\ was = f THEN idx.order
                  ELSE IF Includes(idx.order, was)
                  THEN [idx.order EXCEPT ![IndexOf(idx.order, was)] = f]
                  ELSE Append(idx.order, f)

\* idx2 is idx after exactly one operation's update (or none)
OneIndexUpdate(idx, idx2) ==
  \/ idx2 = idx
  \/ \E t \in DOMAIN idx2.tokens \ DOMAIN idx.tokens :
       Mapped(idx, idx2, t, idx2.tokens[t], idx2.tokens[t])
  \/ \E t \in DOMAIN idx2.tokens \cap DOMAIN idx.tokens :
       Mapped(idx, idx2, t, idx2.tokens[t], idx.tokens[t])
  \/ \E t \in DOMAIN idx.tokens :
       /\ idx2.tokens = MapDel(idx.tokens, t)
       /\ idx2.order = SelectSeq(idx.order, LAMBDA f : f # idx.tokens[t])
  \/ /\ idx2.tokens = idx.tokens
     /\ \E i \in 1..(Len(idx.order) - 1) : idx2.order = Swap(idx.order, i, i + 1)

WithRename(r, idx) ==
  [tokens |-> MapSet(r.after.tokens, r.held, idx.tokens[r.held]),
   order |-> [i \in DOMAIN r.after.order |->
                IF r.after.order[i] = r.from THEN idx.tokens[r.held]
                ELSE r.after.order[i]]]

\* the handler that was suspended during the update r has since renamed its batch
RenamedSince(r) ==
  /\ r.held \notin { k.token : k \in naming }
  /\ r.held \in DOMAIN renames
  /\ r.held \in KnownTokens

OpensAsSpecified(d, n, name) ==
  LET t == generateToken(RandomBytes(n))
      r == startPendingBatch(d, n, AuthorChat, name)
      f == IF Trim(name) # <<>> THEN Trim(name) ELSE BatchPrefix \o t
      idx == readIndex(r.disk)
      stored == readBatchFile(r.disk, f)
  IN  /\ stored # NoBatch
      /\ stored.token = t /\ stored.filename = f /\ stored.files = <<>>
      /\ t \in DOMAIN idx.tokens /\ idx.tokens[t] = f
      /\ Len(idx.order) > 0 /\ idx.order[Len(idx.order)] = f
      /\ r.sess.token = t /\ r.sess.filename = f /\ r.sess.nfiles = 0
      /\ r.sess.autoNamed = (Trim(name) = <<>>)

\* C22: open-batch, run in any state the program reaches, allocates a token
\* t, chooses the filename f (the trimmed explicit name, or batch_<t> when
\* none is given), persists a Batch record for f with token t and no items,
\* maps t to f in the Index with f the last entry of order, and leaves a
\* session with t, f, zero items and auto-naming pending exactly when no
\* explicit name was given.
OpenBatchAsSpecified ==
  \A name \in lim.names \cup {<<>>} : OpensAsSpecified(disk, drawn + 1, name)

\* the step is a successful rename by the suspended handler k
RenamedBy(k) ==
  /\ k \in naming /\ k \notin naming'
  /\ renames' # renames
  /\ k.token \in DOMAIN renames'

\* C23: a successful auto-rename replaces the provisional filename by the new
\* one at the same position of order and remaps the session token to it; the
\* length of order, the places of all other filenames and all other token
\* mappings stay as they were, and the provisional filename no longer occurs
\* in the Index.
RenameInPlace ==
  [][\A k \in naming :
       RenamedBy(k) =>
         LET idx == readIndex(disk)
             idx2 == readIndex(disk')
             t == k.token
             new == idx2.tokens[t]
         IN  /\ t \in DOMAIN idx2.tokens
             /\ new # k.filename
             /\ Includes(idx.order, k.filename)
             /\ idx2.order = [idx.order EXCEPT ![IndexOf(idx.order, k.filename)] = new]
             /\ DOMAIN idx2.tokens = DOMAIN idx.tokens
             /\ \A u \in DOMAIN idx.tokens \ {t} : idx2.tokens[u] = idx.tokens[u]
             /\ ~Includes(idx2.order, k.filename)
             /\ \A u \in DOMAIN idx2.tokens : idx2.tokens[u] # k.filename]_vars

\* C24: auto-rename never writes over an existing Batch record: the storage
\* key of the filename it chooses held no record when it was chosen (the
\* numeric suffix is incremented until this is so), and the record of every
\* other batch is the same after the rename as before it.
RenameSparesOtherRecords ==
  [][\A k \in naming :
       RenamedBy(k) =>
         LET new == readIndex(disk').tokens[k.token]
         IN  /\ ~Exists(disk, filenameToPath(new))
             /\ readBatchFile(disk', new) # NoBatch
             /\ \A path \in DOMAIN disk \ {filenameToPath(k.filename), INDEX_FILE} :
                  Exists(disk', path) /\ disk'[path] = disk[path]
             /\ \A u \in KnownTokens \ {k.token} :
                  BatchOfToken(disk', u) = BatchOfToken(disk, u)]_vars

\* a batch was auto-named Foo_<t>_1 because the key of Foo_<t> was taken by
\* another batch, whose record is still stored under it
SuffixedBesideTaken ==
  \E t, u \in KnownTokens :
    /\ t # u
    /\ readIndex(disk).tokens[t] = Foo \o <<"_">> \o t \o <<"_", "1">>
    /\ readIndex(disk).tokens[u] = Foo \o <<"_">> \o t
    /\ BatchOfToken(disk, u) # NoBatch /\ BatchOfToken(disk, u).token = u
    /\ BatchOfToken(disk, t) # NoBatch /\ BatchOfToken(disk, t).token = t

\* C25: at every intermediate step of an auto-rename (new record written,
\* old record removed, Index rewritten), also when the process has stopped
\* between two of them, the batch's token resolves through the Index to an
\* existing Batch record that holds all items appended so far: here, where
\* nothing is deleted, every token of the Index resolves to a record of its
\* own and every item received is in the record of some token.
RenameKeepsTokenResolving ==
  /\ \A t \in KnownTokens :
       BatchOfToken(disk, t) # NoBatch /\ BatchOfToken(disk, t).token = t
  /\ \A i \in 1..(nextItem - 1) :
       \E t \in KnownTokens : i \in ItemsOf(BatchOfToken(disk, t))

\* the names the admin supplies, as the filename reply takes them
SuppliedNames == { Trim(n) : n \in lim.names }

\* the session of chat c was opened under a supplied name: it has one, and
\* no rename gave it
ExplicitSession(c) ==
  /\ c \in DOMAIN pendingBatches
  /\ pendingBatches[c].started
  /\ pendingBatches[c].filename \in SuppliedNames
  /\ pendingBatches[c].token \notin DOMAIN renames

\* C26: a session opened with an explicit, non-empty filename is never
\* auto-named: as long as the session lasts (through every append, up to
\* finalize) its filename, the filename and displayName of its batch and
\* the Index mapping of its token are the supplied name, whatever captions
\* or file names the appended items carry.
ExplicitNameStays ==
  [][\A c \in {AuthorChat} :
       (/\ ExplicitSession(c)
        /\ c \in DOMAIN pendingBatches'
        /\ pendingBatches'[c].token = pendingBatches[c].token)
         => LET t == pendingBatches[c].token
                name == pendingBatches[c].filename
            IN  /\ pendingBatches'[c].filename = name
                /\ ~pendingBatches'[c].autoNamed
                /\ t \in DOMAIN readIndex(disk').tokens
                /\ readIndex(disk').tokens[t] = name
                /\ BatchOfToken(disk', t) # NoBatch
                /\ BatchOfToken(disk', t).filename = name
                /\ BatchOfToken(disk', t).display_name = name]_vars

\* a session under its supplied name holds two items, the first with a
\* caption that would name a batch and the second a document with a file name
ExplicitSessionWithLabelledItems ==
  /\ ExplicitSession(AuthorChat)
  /\ LET b == BatchOfToken(disk, pendingBatches[AuthorChat].token)
     IN  /\ b # NoBatch
         /\ b.filename = pendingBatches[AuthorChat].filename
         /\ Len(b.files) = 2
         /\ sanitizeFilenameForDisk(FirstNonEmptyLine(b.files[1].caption)) # <<>>
         /\ b.files[2].file_name # <<>>

\* the step is an append of conversation c in append-to-existing mode
AppendsExisting(c) ==
  /\ c \in DOMAIN pendingAddTo
  /\ c \in DOMAIN pendingAddTo'
  /\ pendingAddTo'[c].nfiles = pendingAddTo[c].nfiles + 1

\* C27: an append in append-to-existing mode resolves the session token
\* through the Index as it is at the append; the record it resolves to gains
\* exactly the new item, at the end, and keeps its filename, display name,
\* token, ratings and earlier items; no other file and nothing of the Index
\* changes; no auto-naming is entered, whatever the name and the length of
\* the target.  When the token resolves to no record the append writes nothing.
AppendExistingAddsOneItem ==
  [][\A c \in DOMAIN pendingAddTo :
       AppendsExisting(c) =>
         LET idx == readIndex(disk)
             filename == Lookup(idx.tokens, pendingAddTo[c].token)
             batch == IF filename = Undefined THEN NoBatch
                      ELSE readBatchFile(disk, filename)
         IN  /\ readIndex(disk') = idx
             /\ naming' = naming
             /\ renames' = renames
             /\ pendingBatches' = pendingBatches
             /\ IF batch = NoBatch THEN disk' = disk
                ELSE LET after == readBatchFile(disk', filename)
                     IN  /\ after # NoBatch
                         /\ Len(after.files) = Len(batch.files) + 1
                         /\ SubSeq(after.files, 1, Len(batch.files)) = batch.files
                         /\ after.files[Len(after.files)].id = nextItem
                         /\ [after EXCEPT !.files = batch.files] = batch
                         /\ DOMAIN disk' = DOMAIN disk
                         /\ \A path \in DOMAIN disk \ {filenameToPath(filename)} :
                              disk'[path] = disk[path]]_vars

\* an append-to-existing session has put its one item into a batch that was
\* empty and is still stored under its provisional name, and no auto-naming
\* is under way or has taken place
AppendedToEmptyProvisional ==
  \E c \in DOMAIN pendingAddTo :
    LET token == pendingAddTo[c].token
    IN  /\ pendingAddTo[c].nfiles = 1
        /\ token \in KnownTokens
        /\ readIndex(disk).tokens[token] = <<"b", "a", "t", "c", "h", "_">> \o token
        /\ BatchOfToken(disk, token) # NoBatch
        /\ Len(BatchOfToken(disk, token).files) = 1
        /\ naming = {}
        /\ renames = EmptyMap

\* every item of the record before is an item of the record after, the same
\* but for its caption
ItemsKept(before, after) ==
  \A i \in DOMAIN before.files :
    \E j \in DOMAIN after.files :
      [after.files[j] EXCEPT !.caption = before.files[i].caption] = before.files[i]

\* C28: with one handler at a time, an operation removes or replaces no item
\* of a batch it does not delete: every item of the record a token resolved
\* to before the operation is in the record the token resolves to after it,
\* with the same content (but for its caption); this holds of open-batch with
\* any explicit name, append, auto-rename and finalize (the operations that
\* take no token out of the Index).
ItemsOnlyGrow ==
  [][KnownTokens \subseteq DOMAIN readIndex(disk').tokens
       => \A token \in KnownTokens :
            BatchOfToken(disk, token) # NoBatch
              => /\ BatchOfToken(disk', token) # NoBatch
                 /\ ItemsKept(BatchOfToken(disk, token), BatchOfToken(disk', token))]_vars

\* what conversation c shows after the step
SurfaceAfter(c) == IF c \in DOMAIN surface' THEN surface'[c] ELSE NoSurface

\* C29: a browse_open reads the Index once, when it begins: with a non-empty
\* order whose last batch has an item it goes on with that order and the
\* position len(order) - 1; when its preview message has been sent, the
\* conversation's session is exactly that order and position, not navigated,
\* in place of any session the conversation had, and the session's message
\* is the message just sent; when no message could be sent the sessions stay
\* as they were.
BrowseOpenCreatesSession ==
  [][/\ \A k \in opening' \ opening :
          /\ k.order = readIndex(disk).order
          /\ Len(k.order) > 0
          /\ k.pos = Len(k.order) - 1
          /\ Len(readBatchFile(disk, k.order[Len(k.order)]).files) > 0
     /\ \A k \in opening \ opening' :
          IF SurfaceAfter(k.chat).sent = SurfaceOf(k.chat).sent + 1
          THEN /\ browseSessions' =
                    MapSet(browseSessions, k.chat,
                           [pos |-> k.pos, order |-> k.order, nav |-> Fresh])
               /\ SurfaceAfter(k.chat).messageId = SurfaceAfter(k.chat).sent
               /\ SurfaceAfter(k.chat).messageId \in DOMAIN SurfaceAfter(k.chat).live
               /\ SurfaceAfter(k.chat).messageId \notin DOMAIN SurfaceOf(k.chat).live
          ELSE browseSessions' = browseSessions]_vars

\* a browse_open has put a fresh session in place of an earlier one of the
\* conversation: its message is the last one sent and not the first, and its
\* order is the one read at its beginning, which the Index no longer holds
ReopenedOverEarlierSession ==
  \E c \in DOMAIN browseSessions :
    /\ browseSessions[c].nav = Fresh
    /\ browseSessions[c].pos = Len(browseSessions[c].order) - 1
    /\ SurfaceOf(c).sent >= 2
    /\ SurfaceOf(c).messageId = SurfaceOf(c).sent
    /\ browseSessions[c].order # readIndex(disk).order

\* the step is one of the viewing operations of conversation c: show files,
\* show list, show one item, back to preview, close
Views(c) ==
  \/ BrowseView(c)
  \/ BrowseList(c)
  \/ \E token \in AllTokens : \E fileIdx \in 0..1 : BrowseFile(c, token, fileIdx)
  \/ BrowseBackToPreview(c)
  \/ BrowseFilesClose(c)

\* C30: show files, show list, show one item, back to preview and close
\* leave every browse session where it is, with its position and its order
\* snapshot, and leave the Index and every Batch record as they are; after
\* close the conversation still has its session, at the same position.
ViewingKeepsSession ==
  [][\A c \in DOMAIN browseSessions :
       Views(c) =>
         /\ DOMAIN browseSessions' = DOMAIN browseSessions
         /\ \A b \in DOMAIN browseSessions :
              /\ browseSessions'[b].pos = browseSessions[b].pos
              /\ browseSessions'[b].order = browseSessions[b].order
         /\ readIndex(disk') = readIndex(disk)
         /\ DOMAIN disk' = DOMAIN disk
         /\ \A path \in DOMAIN disk : disk'[path] = disk[path]]_vars

\* the files view was closed on a session that navigation had brought to the
\* newest batch, and the session is there, at that position, with a step to
\* the older batch still open to it
ClosedSessionStillThere ==
  \E c \in DOMAIN browseSessions :
    /\ last.chat = c
    /\ last.update = <<"browse_files_close">>
    /\ browseSessions[c].nav.kind = "forward"
    /\ browseSessions[c].pos = 0
    /\ Len(browseSessions[c].order) = 2
    /\ browseSessions[c].nav.n < lim.maxNav

\* the age of the cache entry of key k
Age(k) == clock - callbackTokenMap[k].createdAt

\* the step is a firing of the cleanup timer
SweepFired == sweepAt' # sweepAt

Records(d) == { d[path] : path \in { q \in DOMAIN d : d[q].kind = "batch" } }

\* what a rating of token by user with score makes of disk d
RatesAsSpecified(d, user, token, score) ==
  LET after == rate(d, user, token, score, clock)
      filename == Lookup(readIndex(d).tokens, token)
      batch == BatchOfToken(d, token)
  IN  IF token \notin DOMAIN readIndex(d).tokens \/ batch = NoBatch THEN after = d
      ELSE LET rated == readBatchFile(after, filename)
           IN  /\ rated # NoBatch
               /\ [rated EXCEPT !.ratings = batch.ratings] = batch
               /\ DOMAIN rated.ratings = DOMAIN batch.ratings \cup {user}
               /\ rated.ratings[user].score = score
               /\ \A u \in DOMAIN batch.ratings \ {user} :
                    rated.ratings[u] = batch.ratings[u]
               /\ DOMAIN after = DOMAIN d
               /\ \A path \in DOMAIN d \ {filenameToPath(filename)} : after[path] = d[path]

NoPrompt(c) ==
  c \in DOMAIN pendingBatches => ~pendingBatches[c].awaitingFilename /\ ~HasFlow(c)

\* the storage keys of the records on disk d that hold item id
Holders(d, id) ==
  { path \in DOMAIN d : d[path].kind = "batch" /\ id \in ItemsOf(d[path]) }

\* C33: an item the admin sends while no filename prompt and no caption-edit
\* prompt is pending is stored in exactly one batch record: the record the
\* append session's token resolves to when an append session is active, else
\* the record of the authoring session, else the record of a batch opened for
\* it; this in every state the conversation's entry can be in.
ItemGoesToOneBatch ==
  [][\A c \in {AuthorChat} :
       (nextItem' = nextItem + 1 /\ NoPrompt(c)) =>
         /\ Cardinality(Holders(disk', nextItem)) = 1
         /\ \A path \in Holders(disk', nextItem) :
              IF c \in DOMAIN pendingAddTo
              THEN path = filenameToPath(readIndex(disk).tokens[pendingAddTo[c].token])
              ELSE IF Authoring(c)
              THEN path = filenameToPath(pendingBatches[c].filename)
              ELSE ~Exists(disk, path)]_vars

\* C34: with one handler at a time every batch record on disk is registered
\* in the Index: some token is mapped to a filename stored under the
\* record's key, and that filename is in order; so no append of a session
\* left open on a deleted batch brings a record of it back.
EveryRecordRegistered ==
  \A path \in DOMAIN disk :
    disk[path].kind = "batch" =>
      \E token \in KnownTokens :
        /\ filenameToPath(readIndex(disk).tokens[token]) = path
        /\ readIndex(disk).tokens[token] \in Range(readIndex(disk).order)

\* C35: with one handler at a time every token of the Index resolves to a
\* batch record that exists, whose token field is that token and whose
\* filename field is the filename the Index maps the token to.
TokenResolvesToOwnRecord ==
  \A token \in KnownTokens :
    /\ BatchOfToken(disk, token) # NoBatch
    /\ BatchOfToken(disk, token).token = token
    /\ BatchOfToken(disk, token).filename = readIndex(disk).tokens[token]
\* the files of the disk with the ratings of the batch records left out
WithoutRatings(d) ==
  [path \in DOMAIN d |->
     IF d[path].kind = "batch" THEN [d[path] EXCEPT !.ratings = <<>>] ELSE d[path]]

\* the ratings of the batch records given by other users than `user`
RatingsOfOthers(d, user) ==
  [path \in { q \in DOMAIN d : d[q].kind = "batch" } |->
     [u \in DOMAIN d[path].ratings \ {user} |-> d[path].ratings[u]]]

\* a step that leaves the Index, the batch records apart from the ratings of
\* `user`, the set of stored files and the sessions as they are
KeepsAllButRatingOf(user) ==
  /\ WithoutRatings(disk') = WithoutRatings(disk)
  /\ RatingsOfOthers(disk', user) = RatingsOfOthers(disk, user)
  /\ UNCHANGED <<pendingBatches, pendingAddTo, naming, drawn, nextItem>>

\* C36: nothing a user other than the admin sends or presses changes the
\* Index, a batch record apart from that user's own entry in its ratings,
\* the set of stored files, or an authoring, append or caption-edit session.
OnlyAdminChangesBatches ==
  [][\A fromId \in Users \ {ADMIN_ID} :
       Sends(fromId) => KeepsAllButRatingOf(fromId)]_vars

\* the other user has rated a batch that the admin is still authoring, has
\* rated too, and is adding items and editing a caption in: the rating is
\* there and the sessions are too
RatedDuringAuthoring ==
  /\ AppendChat \in DOMAIN pendingBatches
  /\ pendingBatches[AppendChat].started
  /\ HasFlow(AppendChat)
  /\ AppendChat \in DOMAIN pendingAddTo
  /\ \E record \in Records(disk) :
       /\ record.filename = pendingBatches[AppendChat].filename
       /\ record.files # <<>>
       /\ DOMAIN record.ratings = Users

\* the browse content messages of c's session that are in the chat
LiveOfSession(c) ==
  IF c \in DOMAIN showing THEN DOMAIN showing[c] \cap DOMAIN SurfaceOf(c).live ELSE {}

\* the displayed message of c is in the chat and shows the batch at the
\* session's position, and it is the only browse content message of the session
ShowsPosition(c) ==
  /\ SurfaceOf(c).messageId \in LiveOfSession(c)
  /\ showing[c][SurfaceOf(c).messageId] = browseSessions[c].pos
  /\ LiveOfSession(c) = {SurfaceOf(c).messageId}

\* C37: when the last of two or more overlapping browse steps of a
\* conversation has completed, the session's messageId names a message in
\* the chat that shows the batch at the session's position, and no other
\* browse content message of the session is in the chat.
OverlappedStepsShowFinalPosition ==
  [][\A k \in replacing :
       (k.over /\ replacing' = replacing \ {k} /\ Suspended(k.chat) = {k})
         => ShowsPosition(k.chat)']_vars

\* the conversation holds an authoring session with a batch and an append
\* session
Both(c) == Authoring(c) /\ c \in DOMAIN pendingAddTo

\* the step puts the incoming item at the end of the record that token
\* resolves to and leaves every other file as it is
AppendedTo(token) ==
  LET before == BatchOfToken(disk, token)
      after == BatchOfToken(disk', token)
      target == filenameToPath(readIndex(disk).tokens[token])
  IN  /\ before # NoBatch
      /\ after # NoBatch
      /\ Len(after.files) = Len(before.files) + 1
      /\ SubSeq(after.files, 1, Len(before.files)) = before.files
      /\ after.files[Len(after.files)].id = nextItem
      /\ [after EXCEPT !.files = before.files] = before
      /\ DOMAIN disk' = DOMAIN disk
      /\ \A path \in DOMAIN disk \ {target} : disk'[path] = disk[path]

\* C38 as stated: while the conversation holds both sessions, every item or
\* text the admin sends is appended to the append target and to nothing
\* else, and the authoring session stays as it is.
EveryItemGoesToAppendTarget ==
  [][\A c \in {AuthorChat} :
       (Both(c) /\ \/ \E inp \in lim.inputs : AppendExisting(c, inp) \/ AppendItem(c, inp)
                   \/ \E text \in lim.names : FilenameText(c, text))
         => /\ AppendedTo(pendingAddTo[c].token)
            /\ pendingBatches' = pendingBatches]_vars

\* C38: while a conversation holds both sessions, an incoming item that is
\* no reply to an open filename prompt is taken by append mode and never by
\* the authoring branch: it is appended to the append target if the target's
\* token still resolves to a record and is stored nowhere otherwise, and the
\* authoring session stays as it is. /doneaddto removes the append session
\* only, and the next item then goes to the end of the authoring session's
\* batch; a new batch is opened for it only when a filename prompt is open
\* and the session still has its provisional name.
AppendModeTakesItems ==
  [][\A c \in {AuthorChat} :
       /\ \A inp \in lim.inputs :
            /\ (Both(c) /\ AppendExisting(c, inp)) =>
                 /\ pendingBatches' = pendingBatches
                 /\ IF BatchOfToken(disk, pendingAddTo[c].token) # NoBatch
                    THEN AppendedTo(pendingAddTo[c].token)
                    ELSE disk' = disk
            /\ ~(Both(c) /\ AppendItem(c, inp) /\ ~AppendExisting(c, inp))
            /\ (Authoring(c) /\ c \notin DOMAIN pendingAddTo /\ AppendItem(c, inp)) =>
                 LET cur == pendingBatches'[c]
                     record == readBatchFile(disk', cur.filename)
                     prompted == /\ pendingBatches[c].awaitingFilename
                                 /\ StartsWith(pendingBatches[c].filename, BatchPrefix)
                 IN  /\ cur.started
                     /\ (cur.token = pendingBatches[c].token) <=> ~prompted
                     /\ record # NoBatch
                     /\ record.files # <<>>
                     /\ record.files[Len(record.files)].id = nextItem
       /\ (Both(c) /\ DoneAddTo(c)) =>
            /\ pendingBatches' = pendingBatches
            /\ disk' = disk
            /\ c \notin DOMAIN pendingAddTo']_vars

\* beside an authoring session that has taken no item yet, one item went to
\* the session's own batch through append mode; after /doneaddto the next
\* item went to the same batch through the authoring session, its first
ItemAfterAppendMode ==
  /\ Authoring(AuthorChat)
  /\ AuthorChat \notin DOMAIN pendingAddTo
  /\ pendingBatches[AuthorChat].nfiles = 1
  /\ LET record == readBatchFile(disk, pendingBatches[AuthorChat].filename)
     IN  /\ record # NoBatch
         /\ Len(record.files) = 2
         /\ acked = {1, 2}

\* the admin has opened a batch in conversation a and none of its items is
\* persisted yet
OpenedAndEmpty(a) ==
  /\ Authoring(a)
  /\ pendingBatches[a].nfiles = 0
  /\ readBatchFile(disk, pendingBatches[a].filename) # NoBatch
  /\ readBatchFile(disk, pendingBatches[a].filename).files = <<>>

\* C39 as stated: from the admin's opening of a batch until its first item
\* is persisted no browse_open gets as far as its preview.
NoBrowseOpenBeforeFirstItem ==
  [][OpenedAndEmpty(AuthorChat) => ~BrowseOpenStart(ViewerChat)]_vars

\* C39: a browse_open that finds the order of the Index empty, or no record
\* or no items for the last entry of order, starts no preview, creates no
\* session and leaves the sessions as they are; a batch opened under a name
\* that is not yet in order is the last entry of order and has no items, so
\* that from then on no browse_open creates a session until an item is
\* persisted, a batch is deleted or the order is changed.
BrowseOpenNeedsItems ==
  [][/\ \A c \in {ViewerChat} :
          (nothingToBrowse(disk) /\ (BrowseOpenStart(c) \/ BrowseOpenEmpty(c)))
            => UNCHANGED <<browseSessions, opening, surface, disk>>
     /\ \A text \in lim.names :
          (/\ FilenameText(AuthorChat, text)
           /\ ~Includes(readIndex(disk).order, pendingBatches'[AuthorChat].filename))
            => /\ nothingToBrowse(disk')
               /\ OpenedAndEmpty(AuthorChat)'
     /\ (nothingToBrowse(disk) /\ disk' = disk) => nothingToBrowse(disk')]_vars

\* a viewer with a browse session pressed browse_open while the batch the
\* admin had just opened was empty: the answer was that the latest batch has
\* no files, and the session is still there
RefusedWithSessionKept ==
  /\ last.update = <<"browse_open">>
  /\ last.reply = "Latest batch has no files."
  /\ ViewerChat \in DOMAIN browseSessions
  /\ OpenedAndEmpty(AuthorChat)

\* the number of entries of the sequence q that satisfy Test
CountOf(q, Test(_)) == Cardinality({i \in DOMAIN q : Test(q[i])})

\* the step is a scan of the watcher
ScanStep == indexTimer # NoTimer /\ indexTimer' = NoTimer

\* the name under which the scan announces token k of its snapshot
AnnouncedName(snapshot, k) == IF snapshot[k] = <<>> THEN k ELSE snapshot[k]

\* a scan sends, for every name, as many 'new' messages as there are tokens
\* of that name absent from the previous snapshot and as many 'updated'
\* messages as there are tokens of that name whose name differed, and nothing
\* else; the initial load sends nothing
ScanSendsDifferences ==
  /\ ScanStep =>
       LET absent == DOMAIN knownTokens' \ DOMAIN knownTokens
           differing == {k \in DOMAIN knownTokens' \cap DOMAIN knownTokens :
                           knownTokens[k] # AnnouncedName(knownTokens', k)}
           names == {AnnouncedName(knownTokens', k) : k \in DOMAIN knownTokens'}
           IsMessage(name, action, msg) == msg.name = name /\ msg.action = action
       IN  /\ \A name \in names :
                /\ CountOf(notified', LAMBDA msg : IsMessage(name, "new", msg))
                     = Cardinality({k \in absent : AnnouncedName(knownTokens', k) = name})
                /\ CountOf(notified', LAMBDA msg : IsMessage(name, "updated", msg))
                     = Cardinality({k \in differing :
                                      AnnouncedName(knownTokens', k) = name})
           /\ \A i \in DOMAIN notified' :
                notified'[i].name \in names /\ notified'[i].action \in {"new", "updated"}
  /\ (~watching /\ watching') => notified' = notified

\* a scan runs no sooner than DEBOUNCE_MS after the last reported change, and
\* once for the changes reported before it
ScanAfterLastChange ==
  /\ ScanStep => clock >= indexTimer
  /\ (watching /\ indexTimer' # NoTimer /\ indexTimer' # indexTimer)
       => indexTimer' = clock + DEBOUNCE_MS /\ UNCHANGED <<knownTokens, notified>>

\* the first half of C40 on its own
ScanAnnouncesDifferences == [][ScanSendsDifferences /\ ScanAfterLastChange]_vars

\* C40: a scan sends exactly one 'new' message per token absent from the
\* previous snapshot and one 'updated' message per token whose name differs,
\* none otherwise and none at the initial load; changes reported less than
\* 600 ms apart give one scan after the last; and no token that has been
\* announced as new and has stayed in the Index is announced as new again.
NewAnnouncedAtMostOnce ==
  [][/\ ScanSendsDifferences
     /\ ScanAfterLastChange
     /\ ScanStep =>
          \A k \in DOMAIN knownTokens' \ DOMAIN knownTokens : k \notin announced]_vars

====
